---- MODULE Spec2Model ----
(***************************************************************************)
(* A model of the perceptron engine of sinclairzx81/neuron.                *)
(*                                                                         *)
(* Flat representation: Tensor (layer buffer), Matrix (weights), Network   *)
(* (forward pass) and Trainer (back-propagation with momentum).            *)
(* Graph representation: Memory (index arrays and buffers), Model and the  *)
(* graph Network (forward and backward over neurons and synapses).         *)
(*                                                                         *)
(* Numbers.  A JavaScript number is modelled as an exact rational <<n, d>> *)
(* in lowest terms (d > 0), or as NaN; `undefined` (a hole of an Array, a  *)
(* read past the end of an array, an omitted option) is a value of its     *)
(* own.  Rounding of IEEE doubles and of Float32Array stores is not        *)
(* modelled.  Math.exp and Math.sqrt have no rational value: the "tanh"    *)
(* activation is kept to the nearest quarter, the square root of           *)
(* Trainer.error is left unevaluated, and the LCG-scaled weight seeding is *)
(* abstracted to a small integer per draw.                                 *)
(***************************************************************************)
EXTENDS Integers, Sequences, FiniteSets, TLC

\* ------------------------------------------------------------------------
\* Bounds of the model
\* ------------------------------------------------------------------------
\* number of forward/error/backward calls per run
MaxCalls == 2
\* number of calls per run when only forward and error are called
MaxForwards == 3
\* a call is made only while every stored number has numerator and
\* denominator of at most this magnitude (keeps the arithmetic finite)
MaxMag == 40

\* ------------------------------------------------------------------------
\* JavaScript numbers
\* ------------------------------------------------------------------------
NaN == <<0, 0>>
Undefined == <<1, 0>>

Abs(n) == IF n < 0 THEN 0 - n ELSE n

RECURSIVE Gcd(_, _)
Gcd(a, b) == IF b = 0 THEN a ELSE Gcd(b, a % b)

\* the rational n/d (d # 0) in lowest terms with a positive denominator
Q(n, d) ==
  LET s == IF d < 0 THEN 0 - 1 ELSE 1
      g == Gcd(Abs(n), Abs(d))
  IN  <<(s * n) \div g, Abs(d) \div g>>

Int2Num(n) == <<n, 1>>
Zero == Int2Num(0)
One == Int2Num(1)

IsNumber(x) == x[2] > 0

\* ToNumber of the language: undefined converts to NaN
ToNumber(x) == IF IsNumber(x) THEN x ELSE NaN

Neg(x) == LET a == ToNumber(x) IN IF a = NaN THEN NaN ELSE <<0 - a[1], a[2]>>

Add(x, y) ==
  LET a == ToNumber(x)
      b == ToNumber(y)
  IN  IF a = NaN \/ b = NaN THEN NaN
      ELSE LET g == Gcd(a[2], b[2])
               l == (a[2] \div g) * b[2]
           IN  Q(a[1] * (l \div a[2]) + b[1] * (l \div b[2]), l)

Sub(x, y) == Add(x, Neg(y))

Mul(x, y) ==
  LET a == ToNumber(x)
      b == ToNumber(y)
  IN  IF a = NaN \/ b = NaN THEN NaN
      ELSE LET g1 == Gcd(Abs(a[1]), b[2])
               g2 == Gcd(Abs(b[1]), a[2])
               sa == IF a[1] < 0 THEN 0 - 1 ELSE 1
               sb == IF b[1] < 0 THEN 0 - 1 ELSE 1
           IN  <<sa * sb * (Abs(a[1]) \div g1) * (Abs(b[1]) \div g2),
                 (a[2] \div g2) * (b[2] \div g1)>>

\* x >= 0 of the language: false when x is NaN
GeqZero(x) == LET a == ToNumber(x) IN a # NaN /\ a[1] >= 0

\* the `||` of the language on numbers: undefined, NaN and 0 are falsy
OrElse(x, dflt) == IF x = Undefined \/ x = NaN \/ x = Zero THEN dflt ELSE x

\* ------------------------------------------------------------------------
\* Arrays: an array of length n is a function on 0..n-1
\* ------------------------------------------------------------------------
Length(a) == Cardinality(DOMAIN a)

\* a[i] of the language: undefined outside the array
Index(a, i) == IF i \in DOMAIN a THEN a[i] ELSE Undefined

\* a[i] = v on a Float64Array: the value is converted to a number and a
\* store outside the array is dropped
TypedStore(a, i, v) == IF i \in DOMAIN a THEN [a EXCEPT ![i] = ToNumber(v)] ELSE a

\* the array holding the elements of a sequence
ArrayOf(seq) == [i \in 0..(Len(seq) - 1) |-> seq[i + 1]]

\* every array of length n (n >= 0) over the values vals
ArraysOver(n, vals) == IF n < 0 THEN {} ELSE [0..(n - 1) -> vals]

\* ------------------------------------------------------------------------
\* tensor.ts: activations and layer buffers
\* ------------------------------------------------------------------------
\* the cases of select(type)
Activations == {"identity", "tanh", "binary-step", "relu"}

\* the activations of the networks of the runs: those whose values are
\* rational
Kinds == {"identity", "binary-step", "relu"}

\* (Math.exp(x) - Math.exp(-x)) / (Math.exp(x) + Math.exp(-x)).  Math.exp has
\* no rational value: the quotient is kept to the nearest quarter, found by
\* comparing |x| with atanh(1/8), atanh(3/8), atanh(5/8) and atanh(7/8)
\* (to four decimals).  The quotient at 0 is (1 - 1) / (1 + 1) = 0.
TanhCuts == <<Q(1257, 10000), Q(3942, 10000), Q(7332, 10000), Q(13540, 10000)>>

Tanh(x) ==
  LET a == ToNumber(x)
  IN  IF a = NaN THEN NaN
      ELSE LET quarters == Cardinality({c \in DOMAIN TanhCuts :
                                          Abs(a[1]) * TanhCuts[c][2] >= TanhCuts[c][1] * a[2]})
           IN  Q(IF a[1] < 0 THEN 0 - quarters ELSE quarters, 4)

Activate(kind, x) ==
  CASE kind = "identity" -> ToNumber(x)
    [] kind = "tanh" -> Tanh(x)
    [] kind = "binary-step" -> IF GeqZero(x) THEN One ELSE Zero
    [] kind = "relu" -> IF GeqZero(x) THEN ToNumber(x) ELSE Zero

Derive(kind, x) ==
  CASE kind = "identity" -> One
    [] kind = "tanh" -> Sub(One, Mul(x, x))
    [] kind = "binary-step" -> IF GeqZero(x) THEN One ELSE Zero
    [] kind = "relu" -> IF GeqZero(x) THEN One ELSE Zero

\* a select whose default case returns the identity
SelectDefaultIdentity(type) ==
  IF type \in Activations THEN [thrown |-> "none", activation |-> type]
  ELSE [thrown |-> "none", activation |-> "identity"]

\* select(type): the activation, or the error thrown
Select(type) ==
  IF type \in Activations THEN [thrown |-> "none", activation |-> type]
  ELSE [thrown |-> "unknown activation", activation |-> ""]

\* the fields of new Tensor(units, activation, bias), units + 1 >= 0 and
\* activation one of the cases of select
Tensor(units, activation, bias) ==
  LET data == [i \in 0..((units + 1) - 1) |-> Zero]
  IN  [data |-> TypedStore(data, Length(data) - 1, bias),
       activation |-> activation]

\* new Tensor(units, activation, bias) for an integer units: the object, or
\* the error thrown (new Float64Array(n) throws a RangeError for n < 0)
NewTensor(units, activation, bias) ==
  IF units + 1 < 0 THEN [thrown |-> "RangeError", object |-> <<>>]
  ELSE IF Select(activation).thrown # "none"
    THEN [thrown |-> Select(activation).thrown, object |-> <<>>]
  ELSE [thrown |-> "none",
        object |-> Tensor(units, Select(activation).activation, bias)]

\* ------------------------------------------------------------------------
\* matrix.ts: weight matrices
\* ------------------------------------------------------------------------
\* new Matrix(inputs, outputs)
Matrix(inputs, outputs) ==
  [inputs |-> inputs, outputs |-> outputs,
   data |-> [n \in 0..(inputs * outputs - 1) |-> Zero]]

MatrixGet(m, i, o) == Index(m.data, i + (o * m.inputs))

MatrixSet(m, i, o, value) ==
  [m EXCEPT !.data = TypedStore(m.data, i + (o * m.inputs), value)]

\* ------------------------------------------------------------------------
\* network.ts: the network and its forward pass
\* ------------------------------------------------------------------------
\* An object reference is the index of the object in the array that owns
\* it: a kernel refers to tensors input, output and to matrix `matrix`.

\* a network matrix with a row for the bias slot of the output layer too
NetworkMatrixWithBias(ts, i) == Matrix(Length(ts[i + 0].data), Length(ts[i + 1].data))

\* new Matrix(tensors[i].data.length, tensors[i + 1].data.length - 1)
NetworkMatrix(ts, i) == Matrix(Length(ts[i + 0].data), Length(ts[i + 1].data) - 1)

NetworkKernel(i) == [input |-> i + 0, output |-> i + 1, matrix |-> i]

\* new Network(tensors): the fields of the network
Network(ts) ==
  LET n == Length(ts)
  IN  [tensors |-> ts,
       output |-> [o \in 0..((Length(ts[n - 1].data) - 1) - 1) |-> Undefined],
       matrices |-> [i \in 0..((n - 1) - 1) |-> NetworkMatrix(ts, i)],
       kernels |-> [i \in 0..((n - 1) - 1) |-> NetworkKernel(i)]]

\* Network.inputs(), Network.outputs()
Inputs(ts) == Length(ts[0].data) - 1
Outputs(ts) == Length(ts[Length(ts) - 1].data) - 1

\* for (i < input.length) kernels[0].input.data[i] = input[i]
LoadInput(ts, ks, input) ==
  LET t == ks[0].input
  IN  [ts EXCEPT ![t].data =
         [j \in DOMAIN ts[t].data |->
            IF j < Length(input) THEN ToNumber(input[j]) ELSE ts[t].data[j]]]

\* sum over i < n of matrix.get(i, o) * data[i], accumulated from 0
RECURSIVE WeightedSum(_, _, _, _)
WeightedSum(m, data, o, n) ==
  IF n <= 0 THEN Zero
  ELSE Add(WeightedSum(m, data, o, n - 1),
           Mul(MatrixGet(m, n - 1, o), Index(data, n - 1)))

\* the feed-forward of a kernel that leaves the bias slot of the input layer
\* out of the sum
FeedKernelSkipBias(ts, ms, kernel) ==
  LET m == ms[kernel.matrix]
      inp == ts[kernel.input]
      out == ts[kernel.output]
  IN  [ts EXCEPT ![kernel.output].data =
         [o \in DOMAIN out.data |->
            IF o < m.outputs
            THEN ToNumber(Activate(out.activation,
                                   WeightedSum(m, inp.data, o, m.inputs - 1)))
            ELSE out.data[o]]]

\* one kernel of the feed-forward loop: writes output.data[o], o < matrix.outputs
FeedKernel(ts, ms, kernel) ==
  LET m == ms[kernel.matrix]
      inp == ts[kernel.input]
      out == ts[kernel.output]
  IN  [ts EXCEPT ![kernel.output].data =
         [o \in DOMAIN out.data |->
            IF o < m.outputs
            THEN ToNumber(Activate(out.activation, WeightedSum(m, inp.data, o, m.inputs)))
            ELSE out.data[o]]]

\* kernels k, k+1, ... in increasing order
RECURSIVE FeedFrom(_, _, _, _)
FeedFrom(ts, ms, ks, k) ==
  IF k >= Length(ks) THEN ts
  ELSE FeedFrom(FeedKernel(ts, ms, ks[k]), ms, ks, k + 1)

\* for (o < output.length) output[o] = kernels[last].output.data[o]
Unload(ts, ks, out) ==
  [o \in DOMAIN out |-> Index(ts[ks[Length(ks) - 1].output].data, o)]

\* Network.forward(input): the tensors and the output array after the call;
\* the call returns a reference to the network's own output array
Forward(ts, ms, ks, out, input) ==
  LET fed == FeedFrom(LoadInput(ts, ks, input), ms, ks, 0)
  IN  [tensors |-> fed, output |-> Unload(fed, ks, out)]

\* ------------------------------------------------------------------------
\* trainer.ts: options, buffers, weight seeding and back-propagation
\* ------------------------------------------------------------------------
\* the defaults of the training options: seed 0, step 0.15, momentum 0.5
DefaultSeed == Zero
DefaultStep == Q(15, 100)
DefaultMomentum == Q(5, 10)

\* options = options || {}; options.x = options.x || default
TrainingOptions(given) ==
  [seed |-> OrElse(given.seed, DefaultSeed),
   step |-> OrElse(given.step, DefaultStep),
   momentum |-> OrElse(given.momentum, DefaultMomentum)]

\* The n-th weight drawn for a trainer (n = 0, 1, ...) from Random(seed):
\* (random.next() - 0.5) * (1 / Math.sqrt(inputs)).  The generator and the
\* square root are not evaluated: the draw is a small integer fixed by the
\* seed and by n.
RandomWeight(seed, n) == Int2Num(((seed[1] + n) % 3) - 1)

\* the seeding loops with the input index outermost
RECURSIVE SeedMatrixInputMajor(_, _, _, _)
SeedMatrixInputMajor(m, seed, first, n) ==
  IF n >= m.outputs * m.inputs THEN m
  ELSE SeedMatrixInputMajor(MatrixSet(m, n \div m.outputs, n % m.outputs,
                                      RandomWeight(seed, first + n)),
                            seed, first, n + 1)

\* for (o < outputs) for (i < inputs) matrix.set(i, o, rand), from the n-th
\* store of this matrix on; `first` draws were made for earlier matrices
RECURSIVE SeedMatrix(_, _, _, _)
SeedMatrix(m, seed, first, n) ==
  IF n >= m.outputs * m.inputs THEN m
  ELSE SeedMatrix(MatrixSet(m, n % m.inputs, n \div m.inputs,
                            RandomWeight(seed, first + n)),
                  seed, first, n + 1)

\* the number of draws made for the matrices before matrix k
RECURSIVE DrawsBefore(_, _)
DrawsBefore(ms, k) ==
  IF k <= 0 THEN 0
  ELSE DrawsBefore(ms, k - 1) + ms[k - 1].inputs * ms[k - 1].outputs

SeedWeights(ms, seed) ==
  [k \in DOMAIN ms |-> SeedMatrix(ms[k], seed, DrawsBefore(ms, k), 0)]

TrainerKernel(i) ==
  [matrix |-> [matrix |-> i, deltas |-> i],
   input |-> [tensor |-> i + 0, grads |-> i + 0],
   output |-> [tensor |-> i + 1, grads |-> i + 1]]

\* new Trainer(network, options): the fields of the trainer and the seeded
\* matrices of the network
Trainer(net, given) ==
  LET opts == TrainingOptions(given)
  IN  [options |-> opts,
       deltas |-> [i \in DOMAIN net.matrices |->
                     Matrix(net.matrices[i].inputs, net.matrices[i].outputs)],
       gradients |-> [i \in DOMAIN net.tensors |->
                        [j \in 0..(Length(net.tensors[i].data) - 1) |-> Zero]],
       matrices |-> SeedWeights(net.matrices, opts.seed),
       kernels |-> [i \in DOMAIN net.kernels |-> TrainerKernel(i)]]

\* a phase 1 that derives on the weighted sum of the unit, not on the unit's
\* activated value
OutputGradientsOnSum(ts, ms, gs, tks, expect) ==
  LET kernel == tks[Length(tks) - 1]
      out == ts[kernel.output.tensor]
      m == ms[kernel.matrix.matrix]
  IN  [gs EXCEPT ![kernel.output.grads] =
         [o \in DOMAIN gs[kernel.output.grads] |->
            IF o < m.outputs
            THEN Mul(Sub(Index(expect, o), out.data[o]),
                     Derive(out.activation,
                            WeightedSum(m, ts[kernel.input.tensor].data, o, m.inputs)))
            ELSE gs[kernel.output.grads][o]]]

\* phase 1: gradients of the output layer
OutputGradients(ts, ms, gs, tks, expect) ==
  LET kernel == tks[Length(tks) - 1]
      out == ts[kernel.output.tensor]
  IN  [gs EXCEPT ![kernel.output.grads] =
         [o \in DOMAIN gs[kernel.output.grads] |->
            IF o < ms[kernel.matrix.matrix].outputs
            THEN Mul(Sub(Index(expect, o), out.data[o]),
                     Derive(out.activation, out.data[o]))
            ELSE gs[kernel.output.grads][o]]]

\* sum over o < n of matrix.get(i, o) * grads[o], accumulated from 0
RECURSIVE GradientSum(_, _, _, _)
GradientSum(m, grads, i, n) ==
  IF n <= 0 THEN Zero
  ELSE Add(GradientSum(m, grads, i, n - 1),
           Mul(MatrixGet(m, i, n - 1), Index(grads, n - 1)))

\* phase 2 for one kernel: gradients of its input layer
HiddenKernel(ts, ms, gs, kernel) ==
  LET m == ms[kernel.matrix.matrix]
      inp == ts[kernel.input.tensor]
  IN  [gs EXCEPT ![kernel.input.grads] =
         [i \in DOMAIN gs[kernel.input.grads] |->
            IF i < m.inputs
            THEN Mul(GradientSum(m, gs[kernel.output.grads], i, m.outputs),
                     Derive(inp.activation, Index(inp.data, i)))
            ELSE gs[kernel.input.grads][i]]]

\* a phase 2 that visits the kernel of the input layer too
RECURSIVE HiddenGradientsAllKernels(_, _, _, _, _)
HiddenGradientsAllKernels(ts, ms, gs, tks, k) ==
  IF k >= 0
  THEN HiddenGradientsAllKernels(ts, ms, HiddenKernel(ts, ms, gs, tks[k]), tks, k - 1)
  ELSE gs

\* phase 2: for (k = kernels.length - 1; k > 0; k--)
RECURSIVE HiddenGradients(_, _, _, _, _)
HiddenGradients(ts, ms, gs, tks, k) ==
  IF k > 0
  THEN HiddenGradients(ts, ms, HiddenKernel(ts, ms, gs, tks[k]), tks, k - 1)
  ELSE gs

\* phase 3 for one kernel without the momentum term
RECURSIVE UpdateKernelNoMomentum(_, _, _, _, _, _)
UpdateKernelNoMomentum(m, d, data, grads, opts, n) ==
  IF n >= m.inputs * m.outputs THEN [matrix |-> m, deltas |-> d]
  ELSE LET i == n \div m.outputs
           o == n % m.outputs
           new_delta == Mul(Mul(opts.step, Index(data, i)), Index(grads, o))
           new_weight == Add(MatrixGet(m, i, o), new_delta)
       IN  UpdateKernelNoMomentum(MatrixSet(m, i, o, new_weight),
                                  MatrixSet(d, i, o, new_delta),
                                  data, grads, opts, n + 1)

\* a phase 3 for one kernel that adds the bias entry of the output layer's
\* gradient buffer to the gradient of every unit
RECURSIVE UpdateKernelReadsBiasEntry(_, _, _, _, _, _)
UpdateKernelReadsBiasEntry(m, d, data, grads, opts, n) ==
  IF n >= m.inputs * m.outputs THEN [matrix |-> m, deltas |-> d]
  ELSE LET i == n \div m.outputs
           o == n % m.outputs
           old_delta == MatrixGet(d, i, o)
           grad == Add(Index(grads, o), Index(grads, m.outputs))
           new_delta == Add(Mul(Mul(opts.step, Index(data, i)), grad),
                            Mul(opts.momentum, old_delta))
           new_weight == Add(MatrixGet(m, i, o), new_delta)
       IN  UpdateKernelReadsBiasEntry(MatrixSet(m, i, o, new_weight),
                                      MatrixSet(d, i, o, new_delta),
                                      data, grads, opts, n + 1)

\* phase 3 for one kernel from its n-th pair (i, o) on, i outermost:
\* the matrix and the delta matrix after the stores
RECURSIVE UpdateKernel(_, _, _, _, _, _)
UpdateKernel(m, d, data, grads, opts, n) ==
  IF n >= m.inputs * m.outputs THEN [matrix |-> m, deltas |-> d]
  ELSE LET i == n \div m.outputs
           o == n % m.outputs
           old_delta == MatrixGet(d, i, o)
           new_delta == Add(Mul(Mul(opts.step, Index(data, i)), Index(grads, o)),
                            Mul(opts.momentum, old_delta))
           new_weight == Add(MatrixGet(m, i, o), new_delta)
       IN  UpdateKernel(MatrixSet(m, i, o, new_weight),
                        MatrixSet(d, i, o, new_delta),
                        data, grads, opts, n + 1)

\* a phase 3 in which the update of a kernel also recomputes the gradients of
\* its input layer from the weights it has just stored, for the update of
\* the kernel below to read
RECURSIVE UpdateWeightsFused(_, _, _, _, _, _, _)
UpdateWeightsFused(ts, ms, ds, gs, tks, opts, k) ==
  IF k > 0 - 1
  THEN LET kernel == tks[k]
           r == UpdateKernel(ms[kernel.matrix.matrix], ds[kernel.matrix.deltas],
                             ts[kernel.input.tensor].data,
                             gs[kernel.output.grads], opts, 0)
           stored == [ms EXCEPT ![kernel.matrix.matrix] = r.matrix]
       IN  UpdateWeightsFused(ts, stored,
                              [ds EXCEPT ![kernel.matrix.deltas] = r.deltas],
                              HiddenKernel(ts, stored, gs, kernel), tks, opts, k - 1)
  ELSE [matrices |-> ms, deltas |-> ds]

\* phase 3: for (k = kernels.length - 1; k > -1; k--)
RECURSIVE UpdateWeights(_, _, _, _, _, _, _)
UpdateWeights(ts, ms, ds, gs, tks, opts, k) ==
  IF k > 0 - 1
  THEN LET kernel == tks[k]
           r == UpdateKernel(ms[kernel.matrix.matrix], ds[kernel.matrix.deltas],
                             ts[kernel.input.tensor].data,
                             gs[kernel.output.grads], opts, 0)
       IN  UpdateWeights(ts,
                         [ms EXCEPT ![kernel.matrix.matrix] = r.matrix],
                         [ds EXCEPT ![kernel.matrix.deltas] = r.deltas],
                         gs, tks, opts, k - 1)
  ELSE [matrices |-> ms, deltas |-> ds]

\* a backward that updates the weights of the last kernel before it computes
\* the gradients of the hidden layers
BackwardUpdateFirst(ts, ms, ks, out, ds, gs, tks, opts, input, expect) ==
  LET fwd == Forward(ts, ms, ks, out, input)
      g1 == OutputGradients(fwd.tensors, ms, gs, tks, expect)
      top == tks[Length(tks) - 1]
      r == UpdateKernel(ms[top.matrix.matrix], ds[top.matrix.deltas],
                        fwd.tensors[top.input.tensor].data, g1[top.output.grads],
                        opts, 0)
      g2 == HiddenGradients(fwd.tensors, [ms EXCEPT ![top.matrix.matrix] = r.matrix],
                            g1, tks, Length(tks) - 1)
      upd == UpdateWeights(fwd.tensors, ms, ds, g2, tks, opts, Length(tks) - 1)
  IN  [tensors |-> fwd.tensors, output |-> fwd.output, gradients |-> g2,
       matrices |-> upd.matrices, deltas |-> upd.deltas]

\* Trainer.backward(input, expect): every field the call writes
Backward(ts, ms, ks, out, ds, gs, tks, opts, input, expect) ==
  LET fwd == Forward(ts, ms, ks, out, input)
      g1 == OutputGradients(fwd.tensors, ms, gs, tks, expect)
      g2 == HiddenGradients(fwd.tensors, ms, g1, tks, Length(tks) - 1)
      upd == UpdateWeights(fwd.tensors, ms, ds, g2, tks, opts, Length(tks) - 1)
  IN  [tensors |-> fwd.tensors, output |-> fwd.output, gradients |-> g2,
       matrices |-> upd.matrices, deltas |-> upd.deltas]

\* The number under the square root of Trainer.error(input, expect): the
\* mean of (expect[index] - value)^2 over the returned array (Math.sqrt is
\* not evaluated)
RECURSIVE SquaredError(_, _, _)
SquaredError(actual, expect, n) ==
  IF n <= 0 THEN Zero
  ELSE LET delta == Sub(Index(expect, n - 1), Index(actual, n - 1))
       IN  Add(SquaredError(actual, expect, n - 1), Mul(delta, delta))

ErrorRadicand(actual, expect) ==
  LET sum == SquaredError(actual, expect, Length(actual))
  IN  IF Length(actual) = 0 \/ ToNumber(sum) = NaN THEN NaN
      ELSE Q(sum[1], sum[2] * Length(actual))

\* ------------------------------------------------------------------------
\* The state: one Network with its Trainer, and what a caller holds
\* ------------------------------------------------------------------------
VARIABLES
  tensors,      \* Network.tensors: the layer buffers
  matrices,     \* Network.matrices: the weights
  kernels,      \* Network.kernels
  output,       \* Network.output: the array forward() returns
  options,      \* Trainer.options, defaults applied
  deltas,       \* Trainer.deltas: the previous update of every weight
  gradients,    \* Trainer.gradients
  trainerKernels, \* Trainer.kernels
  calls,        \* the number of calls made
  budget,       \* the number of calls the run may make
  last,         \* the last call: its arguments, its result, the state before it
  kept,         \* the array a caller got from its first forward(), as the
                \* caller saw it when the call returned
  training,     \* the backward calls made: their number, per weight the sum
                \* of the deltas they stored, and the deltas the last one left
  pin,          \* the first forward(x) with x.length = inputs() since the
                \* weights last changed, and what it returned
  built,        \* what construction set: the bias values and the seeded weights,
                \* and the options the caller gave
  heap,         \* two Network+Trainer pairs: the objects `new` allocated
  pairs,        \* per pair, the references its network and trainer hold
  alone,        \* per pair, the state it reaches when its calls run alone
  lastPair,     \* the last call on a pair, its result and the heap before it
  made,         \* the last `new Tensor` or `new Network`: arguments and outcome
  cells,        \* a Matrix object whose get and set are called directly
  access,       \* the last Matrix.get or Matrix.set call on it
  objectCalls,  \* the number of constructor and accessor calls made
  memory,       \* the Memory of a graph Model: indices and buffers
  graph,        \* the graph Network over it: options, calls made, last call
  twin,         \* a flat Network+Trainer of the same shape, called in step
  sequence,     \* the array of a Sequence
  windowed,     \* the last Sequence.window call on it and what it returned
  random,       \* a Random generator: its seed and the draws made
  shadow        \* two trainers that differ in the bias entries of their
                \* gradient buffers only, given the same calls

\* the variables of the one Network with its Trainer
flatVars == <<tensors, matrices, kernels, output, options, deltas, gradients,
              trainerKernels, calls, budget, last, kept, training, pin, built>>

\* the variables of the two pairs
pairVars == <<heap, pairs, alone, lastPair>>

\* the variables of the constructor and accessor calls
objectVars == <<made, cells, access, objectCalls>>

\* the variables of the graph model and its flat twin
graphVars == <<memory, graph, twin>>

\* the variables of the helpers and of the paired trainers
sideVars == <<sequence, windowed, random, shadow>>

vars == <<flatVars, pairVars, objectVars, graphVars, sideVars>>

\* the layer sizes, activations, bias values and options tried
Topologies == {<<2, 1>>, <<1, 1, 2>>}
NoOptions == [seed |-> Undefined, step |-> Undefined, momentum |-> Undefined]

\* the pairs <<bias of every layer, options given to the trainer>> tried
Builds ==
  {<<One, NoOptions>>,
   <<Int2Num(2), [seed |-> One, step |-> One, momentum |-> One]>>,
   <<One, [seed |-> Int2Num(2), step |-> Int2Num(2), momentum |-> Zero]>>}

\* the values of the elements of input and expect
InVals == {Zero, One}

\* the arguments tried for a parameter meant to have length n: every array
\* of length n, a shorter one and a longer one
WrongArgs(n) == ArraysOver(n - 1, {One}) \cup ArraysOver(n + 1, {Zero})
CallArgs(n) == ArraysOver(n, InVals) \cup WrongArgs(n)

\* the pairs (input, expect) tried for backward: every pair of the right
\* lengths n and m, and pairs with one argument of a wrong length
BackwardArgs(n, m) ==
  (ArraysOver(n, InVals) \X ArraysOver(m, InVals))
    \cup (WrongArgs(n) \X ArraysOver(m, {One}))
    \cup (ArraysOver(n, {One}) \X WrongArgs(m))

\* the pairs (input, expect) tried for error
ErrorArgs(n, m) ==
  (ArraysOver(n, InVals) \X ArraysOver(m, {One}))
    \cup (ArraysOver(n, {One}) \X WrongArgs(m))

None == [x |-> <<>>, seen |-> <<>>, set |-> FALSE]

\* the one array a reference returned by forward() denotes
OutputArray == "Network.output"
NotKept == [ref |-> "", seen |-> <<>>, set |-> FALSE]

NoCall ==
  [op |-> "none", input |-> <<>>, expect |-> <<>>, result |-> <<>>,
   value |-> Undefined, thrown |-> "none", before |-> <<>>]

State == [tensors |-> tensors, matrices |-> matrices, deltas |-> deltas,
          gradients |-> gradients, output |-> output]

\* the state after new Trainer(new Network([new Tensor(..), ..]), given)
Construct(topo, acts, bias, given, limit) ==
    LET ts == [i \in 0..(Len(topo) - 1) |->
                 IF i = 0 THEN Tensor(topo[1], "identity", bias)
                 ELSE Tensor(topo[i + 1], acts[i], bias)]
        net == Network(ts)
        trainer == Trainer(net, given)
    IN  /\ tensors = net.tensors
        /\ matrices = trainer.matrices
        /\ kernels = net.kernels
        /\ output = net.output
        /\ options = trainer.options
        /\ deltas = trainer.deltas
        /\ gradients = trainer.gradients
        /\ trainerKernels = trainer.kernels
        /\ calls = 0
        /\ budget = limit
        /\ last = NoCall
        /\ kept = NotKept
        /\ training = [backwards |-> 0,
                       applied |-> [k \in DOMAIN net.matrices |->
                                      [n \in DOMAIN net.matrices[k].data |-> Zero]],
                       stored |-> trainer.deltas]
        /\ pin = None
        /\ built = [bias |-> [i \in DOMAIN ts |-> bias],
                    sizes |-> [i \in DOMAIN ts |-> Length(ts[i].data)],
                    weights |-> trainer.matrices,
                    given |-> given]

\* no pair is built
NoPairs ==
  /\ heap = <<>>
  /\ pairs = <<>>
  /\ alone = <<>>
  /\ lastPair = <<>>

\* no constructor or accessor is called
NoObjects ==
  /\ made = <<>>
  /\ cells = <<>>
  /\ access = <<>>
  /\ objectCalls = 0

\* no graph model is built
NoGraph ==
  /\ memory = <<>>
  /\ graph = <<>>
  /\ twin = <<>>

\* no Sequence, no Random and no second trainer is built
NoSide ==
  /\ sequence = <<>>
  /\ windowed = <<>>
  /\ random = <<>>
  /\ shadow = <<>>

Init ==
  /\ \E topo \in Topologies, build \in Builds :
     \E acts \in [1..(Len(topo) - 1) -> Kinds] :
       Construct(topo, acts, build[1], build[2], MaxCalls)
  /\ NoPairs
  /\ NoObjects
  /\ NoGraph
  /\ NoSide

\* every number the network and the trainer store
Stored ==
  UNION ({{tensors[i].data[j] : j \in DOMAIN tensors[i].data} : i \in DOMAIN tensors}
         \cup {{matrices[k].data[n] : n \in DOMAIN matrices[k].data} : k \in DOMAIN matrices}
         \cup {{deltas[k].data[n] : n \in DOMAIN deltas[k].data} : k \in DOMAIN deltas}
         \cup {{gradients[i][j] : j \in DOMAIN gradients[i]} : i \in DOMAIN gradients})

CanCall ==
  /\ calls < budget
  /\ \A x \in Stored : Abs(x[1]) <= MaxMag /\ x[2] <= MaxMag

\* the caller keeps the array its first forward() returned
Keep(ref, result) ==
  IF kept.set THEN kept ELSE [ref |-> ref, seen |-> result, set |-> TRUE]

\* the first correct-length forward(x) since the weights changed
Pin(input, result) ==
  IF pin.set \/ Length(input) # Inputs(tensors) THEN pin
  ELSE [x |-> input, seen |-> result, set |-> TRUE]

\* Network.forward(input) (and Trainer.forward, which proxies to it)
ForwardCall(input) ==
  /\ CanCall
  /\ \E r \in {Forward(tensors, matrices, kernels, output, input)} :
         /\ tensors' = r.tensors
         /\ output' = r.output
         /\ last' = [op |-> "forward", input |-> input, expect |-> <<>>,
                     result |-> r.output, value |-> Undefined,
                     thrown |-> "none", before |-> State]
         /\ kept' = Keep(OutputArray, r.output)
         /\ pin' = Pin(input, r.output)
  /\ calls' = calls + 1
  /\ UNCHANGED <<matrices, kernels, options, deltas, gradients, trainerKernels,
                 budget, training, built>>

\* Trainer.error(input, expect)
ErrorCall(input, expect) ==
  /\ CanCall
  /\ \E r \in {Forward(tensors, matrices, kernels, output, input)} :
         /\ tensors' = r.tensors
         /\ output' = r.output
         /\ last' = [op |-> "error", input |-> input, expect |-> expect,
                     result |-> <<>>, value |-> ErrorRadicand(r.output, expect),
                     thrown |-> "none", before |-> State]
  /\ calls' = calls + 1
  /\ UNCHANGED <<matrices, kernels, options, deltas, gradients, trainerKernels,
                 budget, kept, training, pin, built>>

\* Trainer.backward(input, expect)
BackwardCall(input, expect) ==
  /\ CanCall
  /\ \E r \in {Backward(tensors, matrices, kernels, output, deltas, gradients,
                           trainerKernels, options, input, expect)} :
         /\ tensors' = r.tensors
         /\ output' = r.output
         /\ gradients' = r.gradients
         /\ matrices' = r.matrices
         /\ deltas' = r.deltas
         /\ last' = [op |-> "backward", input |-> input, expect |-> expect,
                     result |-> <<>>, value |-> Undefined,
                     thrown |-> "none", before |-> State]
         /\ training' =
              [backwards |-> training.backwards + 1,
               applied |-> [k \in DOMAIN training.applied |->
                              [n \in DOMAIN training.applied[k] |->
                                 Add(training.applied[k][n], r.deltas[k].data[n])]],
               stored |-> r.deltas]
  /\ pin' = None
  /\ calls' = calls + 1
  /\ UNCHANGED <<kernels, options, trainerKernels, budget, kept, built>>

\* the caller stores a value into an element of the array it was returned
CallerValue == Int2Num(7)

CallerWrite(j) ==
  /\ kept.set
  /\ last.op = "forward"
  /\ j \in DOMAIN output
  /\ output[j] # CallerValue
  /\ output' = [output EXCEPT ![j] = CallerValue]
  /\ kept' = [kept EXCEPT !.seen = [kept.seen EXCEPT ![j] = CallerValue]]
  /\ last' = [op |-> "write", input |-> <<>>, expect |-> <<>>, result |-> <<>>,
              value |-> Undefined, thrown |-> "none", before |-> State]
  /\ UNCHANGED <<tensors, matrices, kernels, options, deltas, gradients,
                 trainerKernels, calls, budget, training, pin, built>>

Next ==
  \/ /\ \E input \in CallArgs(Inputs(tensors)) : ForwardCall(input)
     /\ UNCHANGED <<pairVars, objectVars, graphVars, sideVars>>
  \/ /\ \E args \in ErrorArgs(Inputs(tensors), Outputs(tensors)) :
          ErrorCall(args[1], args[2])
     /\ UNCHANGED <<pairVars, objectVars, graphVars, sideVars>>
  \/ /\ \E args \in BackwardArgs(Inputs(tensors), Outputs(tensors)) :
          BackwardCall(args[1], args[2])
     /\ UNCHANGED <<pairVars, objectVars, graphVars, sideVars>>

Spec == Init /\ [][Next]_vars

\* runs of forward and error calls alone, with a caller that writes into the
\* array it was returned, on networks built with the default options and bias
InitForward ==
  /\ \E topo \in Topologies :
     \E acts \in [1..(Len(topo) - 1) -> Kinds] :
       Construct(topo, acts, One, NoOptions, MaxForwards)
  /\ NoPairs
  /\ NoObjects
  /\ NoGraph
  /\ NoSide

NextForward ==
  \/ /\ \E input \in CallArgs(Inputs(tensors)) : ForwardCall(input)
     /\ UNCHANGED <<pairVars, objectVars, graphVars, sideVars>>
  \/ /\ \E args \in ErrorArgs(Inputs(tensors), Outputs(tensors)) :
          ErrorCall(args[1], args[2])
     /\ UNCHANGED <<pairVars, objectVars, graphVars, sideVars>>
  \/ /\ \E j \in DOMAIN output : CallerWrite(j)
     /\ UNCHANGED <<pairVars, objectVars, graphVars, sideVars>>

SpecForward == InitForward /\ [][NextForward]_vars

\* ------------------------------------------------------------------------
\* Claims
\* ------------------------------------------------------------------------
IsCall == last.op \in {"forward", "error", "backward"}
Layers == Length(tensors)
BiasSlot(i) == Length(tensors[i].data) - 1

\* C1: after every sequence of forward and backward calls, with arguments of
\* any length, the last slot of every layer buffer holds the bias value the
\* layer was constructed with.
C1_BiasImmutable ==
  \A i \in DOMAIN tensors : tensors[i].data[BiasSlot(i)] = built.bias[i]

\* C2: forward(input) fails with ShapeMismatch whenever input.length differs
\* from inputs().
C2_ForwardShapeMismatch ==
  (last.op = "forward" /\ Length(last.input) # Inputs(tensors))
    => last.thrown = "ShapeMismatch"

\* C3: backward(input, expected) fails with ShapeMismatch whenever
\* input.length differs from inputs() or expected.length from outputs().
C3_BackwardShapeMismatch ==
  (last.op = "backward"
     /\ (Length(last.input) # Inputs(tensors) \/ Length(last.expect) # Outputs(tensors)))
    => last.thrown = "ShapeMismatch"

\* the call took every value it is to read from its arguments: each input
\* unit was loaded from input, and for backward each output unit had an
\* expected value
TookAllArguments ==
  /\ \A j \in 0..(Inputs(tensors) - 1) :
       j \in DOMAIN last.input /\ tensors[0].data[j] = ToNumber(last.input[j])
  /\ last.op = "backward" => \A o \in 0..(Outputs(tensors) - 1) : o \in DOMAIN last.expect

\* C4: every forward, error or backward call either completes fully (every
\* buffer updated from the call's arguments) or fails having changed no
\* layer buffer, weight, gradient or delta.
C4_AllOrNothing ==
  IsCall =>
    \/ last.thrown = "none" /\ TookAllArguments
    \/ /\ last.thrown # "none"
       /\ tensors = last.before.tensors
       /\ matrices = last.before.matrices
       /\ gradients = last.before.gradients
       /\ deltas = last.before.deltas

\* the array a reference denotes
Heap(ref) == IF ref = OutputArray THEN output ELSE <<>>

\* C5: the array a forward call returned keeps the values it was returned
\* with (and those its holder wrote) across every later call.
C5_ResultNotAliased ==
  kept.set => Heap(kept.ref) = kept.seen

\* C6: a network of L >= 2 layer buffers has L-1 matrices and L-1 kernels;
\* matrix k has as many inputs as layer k has slots and one output fewer
\* than layer k+1 has slots; kernel k refers to layer k, layer k+1 and
\* matrix k; no buffer or matrix is resized by any call.
C6_Shapes ==
  /\ Layers >= 2
  /\ DOMAIN matrices = 0..(Layers - 2)
  /\ DOMAIN kernels = 0..(Layers - 2)
  /\ \A i \in DOMAIN tensors : Length(tensors[i].data) = built.sizes[i]
  /\ \A k \in 0..(Layers - 2) :
       /\ matrices[k].inputs = Length(tensors[k].data)
       /\ matrices[k].outputs = Length(tensors[k + 1].data) - 1
       /\ Length(matrices[k].data) = matrices[k].inputs * matrices[k].outputs
       /\ kernels[k].input = k /\ kernels[k].output = k + 1 /\ kernels[k].matrix = k
       /\ deltas[k].inputs = matrices[k].inputs
       /\ deltas[k].outputs = matrices[k].outputs
       /\ Length(deltas[k].data) = Length(matrices[k].data)

\* a network of three layers after two calls, the last a backward
C6_Witness == Layers = 3 /\ calls >= 2 /\ last.op = "backward"

\* C7: with the weights unchanged, two calls forward(x) with the same x of
\* length inputs() return the same values, whatever forward or error calls
\* were made between them.
C7_ForwardDeterministic ==
  (last.op = "forward" /\ pin.set /\ last.input = pin.x) => last.result = pin.seen

\* the sum of the values f[x], x in S
RECURSIVE SumTerms(_, _)
SumTerms(f, S) ==
  IF S = {} THEN Zero
  ELSE LET x == CHOOSE y \in S : TRUE
       IN  Add(f[x], SumTerms(f, S \ {x}))

\* sum over every input i of matrix m (bias slot included) of get(i, o) * data[i]
InputSum(m, data, o) ==
  SumTerms([i \in 0..(m.inputs - 1) |-> Mul(MatrixGet(m, i, o), data[i])],
           0..(m.inputs - 1))

\* every layer after the first holds the values the matrices ms propagate
\* from the layer before it
IsPropagated(ms) ==
  \A k \in 0..(Layers - 2) : \A o \in 0..(ms[k].outputs - 1) :
    tensors[k + 1].data[o] =
      Activate(tensors[k + 1].activation, InputSum(ms[k], tensors[k].data, o))

\* the layer buffers hold a forward pass of input through the matrices ms
IsForwardPass(ms, input) ==
  /\ \A j \in 0..(Inputs(tensors) - 1) : tensors[0].data[j] = input[j]
  /\ IsPropagated(ms)

\* C8: after forward(x) with x.length = inputs(), layer 0 holds x, every unit
\* o of layer k+1 holds activate(sum over all i, bias included, of
\* matrix[k].get(i, o) * layer[k][i]), and the returned array has length
\* outputs() and holds the first outputs() values of the last layer.
C8_ForwardValues ==
  (last.op = "forward" /\ Length(last.input) = Inputs(tensors)) =>
    /\ IsForwardPass(matrices, last.input)
    /\ DOMAIN last.result = 0..(Outputs(tensors) - 1)
    /\ \A o \in DOMAIN last.result : last.result[o] = tensors[Layers - 1].data[o]

\* a forward call of the right length on a trained network of three layers
\* that returned a number other than 0
C8_Witness ==
  /\ last.op = "forward" /\ Length(last.input) = Inputs(tensors)
  /\ Layers = 3
  /\ matrices # built.weights
  /\ IsNumber(last.result[0]) /\ last.result[0] # Zero

AllZero(m) == \A n \in DOMAIN m.data : m.data[n] = Zero

\* C9: backward sets, for every kernel k and pair (i, o),
\* newDelta = step * layer[k][i] * grad[k+1][o] + momentum * oldDelta, adds
\* newDelta to the weight and stores it as the oldDelta of the next backward
\* call; the deltas are 0 before the first backward call, and every weight
\* is its seeded value plus the sum of the deltas applied to it.
C9_WeightUpdate ==
  /\ training.backwards = 0 => \A k \in DOMAIN deltas : AllZero(deltas[k])
  /\ deltas = training.stored
  /\ \A k \in DOMAIN matrices : \A n \in DOMAIN matrices[k].data :
       matrices[k].data[n] = Add(built.weights[k].data[n], training.applied[k][n])
  /\ last.op = "backward" =>
       \A k \in 0..(Layers - 2) :
         \A i \in 0..(matrices[k].inputs - 1), o \in 0..(matrices[k].outputs - 1) :
           LET oldDelta == MatrixGet(last.before.deltas[k], i, o)
               newDelta == Add(Mul(Mul(options.step, tensors[k].data[i]),
                                   gradients[k + 1][o]),
                               Mul(options.momentum, oldDelta))
           IN  /\ MatrixGet(deltas[k], i, o) = newDelta
               /\ MatrixGet(matrices[k], i, o) =
                    Add(MatrixGet(last.before.matrices[k], i, o), newDelta)

\* a second backward call that met a delta other than 0 and changed a weight
C9_Witness ==
  /\ last.op = "backward" /\ training.backwards >= 2
  /\ \E k \in DOMAIN deltas : \E n \in DOMAIN deltas[k].data :
       /\ IsNumber(last.before.deltas[k].data[n])
       /\ last.before.deltas[k].data[n] # Zero
       /\ IsNumber(matrices[k].data[n])
       /\ matrices[k].data[n] # last.before.matrices[k].data[n]

\* sum over every output o of matrix m of get(i, o) * grads[o]
OutputSum(m, grads, i) ==
  SumTerms([o \in 0..(m.outputs - 1) |-> Mul(MatrixGet(m, i, o), grads[o])],
           0..(m.outputs - 1))

\* C10: in a backward call the forward pass, the output gradients, the
\* hidden gradients and the weight updates run in this order: the layers
\* hold the forward pass through the weights of before the call, every
\* gradient is computed from these layer values and from the weights of
\* before the call, and the weights are updated from the final gradients.
C10_PhaseOrder ==
  last.op = "backward" =>
    /\ IsPropagated(last.before.matrices)
    /\ \A o \in 0..(Outputs(tensors) - 1) :
         gradients[Layers - 1][o] =
           Mul(Sub(Index(last.expect, o), tensors[Layers - 1].data[o]),
               Derive(tensors[Layers - 1].activation, tensors[Layers - 1].data[o]))
    /\ \A k \in 1..(Layers - 2) : \A i \in 0..(matrices[k].inputs - 1) :
         gradients[k][i] =
           Mul(OutputSum(last.before.matrices[k], gradients[k + 1], i),
               Derive(tensors[k].activation, tensors[k].data[i]))
    /\ \A k \in 0..(Layers - 2) :
         \A i \in 0..(matrices[k].inputs - 1), o \in 0..(matrices[k].outputs - 1) :
           MatrixGet(matrices[k], i, o) =
             Add(MatrixGet(last.before.matrices[k], i, o), MatrixGet(deltas[k], i, o))

\* a backward call on three layers that changed the weights of the last
\* kernel and left a hidden gradient other than 0
C10_Witness ==
  /\ last.op = "backward" /\ Layers = 3
  /\ matrices[1] # last.before.matrices[1]
  /\ \E i \in DOMAIN gradients[1] : IsNumber(gradients[1][i]) /\ gradients[1][i] # Zero

\* ------------------------------------------------------------------------
\* Two Network+Trainer pairs on one heap
\* ------------------------------------------------------------------------
\* The heap holds the objects allocated so far, by type: the Tensor objects,
\* the Matrix objects and the arrays (Network.output, gradient buffers).  A
\* reference is an index into the sequence of its type; `new` appends.
MaxPairCalls == 2

EmptyHeap == [tensors |-> <<>>, matrices |-> <<>>, arrays |-> <<>>]

AllocAll(objects, arr) == objects \o [n \in 1..Length(arr) |-> arr[n - 1]]
RefsFrom(objects, arr) == [i \in DOMAIN arr |-> Len(objects) + 1 + i]
Deref(objects, refs) == [i \in DOMAIN refs |-> objects[refs[i]]]

\* the caller's [new Tensor(units), new Tensor(units, acts, bias), ..]
NewTensors(h, topo, acts, bias) ==
  LET ts == [i \in 0..(Len(topo) - 1) |->
               IF i = 0 THEN Tensor(topo[1], "identity", bias)
               ELSE Tensor(topo[i + 1], acts, bias)]
  IN  [heap |-> [h EXCEPT !.tensors = AllocAll(h.tensors, ts)],
       tensors |-> RefsFrom(h.tensors, ts)]

\* a network whose output array is a buffer kept from the network built
\* before it, when there is one of the same length
NetworkAtStaticOutput(h, tensorRefs) ==
  LET net == Network(Deref(h.tensors, tensorRefs))
      reuse == h.arrays # <<>> /\ Length(h.arrays[1]) = Length(net.output)
  IN  [heap |-> [h EXCEPT !.arrays = IF reuse THEN @ ELSE Append(@, net.output),
                          !.matrices = AllocAll(@, net.matrices)],
       tensors |-> tensorRefs,
       output |-> IF reuse THEN 1 ELSE Len(h.arrays) + 1,
       matrices |-> RefsFrom(h.matrices, net.matrices),
       kernels |-> net.kernels]

\* new Network(tensors) on the heap: keeps the caller's tensors, allocates
\* the output array and the matrices
NetworkAt(h, tensorRefs) ==
  LET net == Network(Deref(h.tensors, tensorRefs))
  IN  [heap |-> [h EXCEPT !.arrays = Append(@, net.output),
                          !.matrices = AllocAll(@, net.matrices)],
       tensors |-> tensorRefs,
       output |-> Len(h.arrays) + 1,
       matrices |-> RefsFrom(h.matrices, net.matrices),
       kernels |-> net.kernels]

\* new Trainer(network, given) on the heap: allocates the delta matrices and
\* the gradient buffers, and seeds the matrices of the network in place
TrainerAt(h, net, given) ==
  LET view == [tensors |-> Deref(h.tensors, net.tensors),
               matrices |-> Deref(h.matrices, net.matrices),
               kernels |-> net.kernels]
      tr == Trainer(view, given)
      seeded == [a \in DOMAIN h.matrices |->
                   IF \E k \in DOMAIN net.matrices : net.matrices[k] = a
                   THEN tr.matrices[CHOOSE k \in DOMAIN net.matrices : net.matrices[k] = a]
                   ELSE h.matrices[a]]
  IN  [heap |-> [h EXCEPT !.matrices = AllocAll(seeded, tr.deltas),
                          !.arrays = AllocAll(@, tr.gradients)],
       options |-> tr.options,
       deltas |-> RefsFrom(h.matrices, tr.deltas),
       gradients |-> RefsFrom(h.arrays, tr.gradients),
       trainerKernels |-> tr.kernels]

\* the objects a pair refers to, as the pair sees them
PairView(h, p) ==
  [tensors |-> Deref(h.tensors, p.tensors),
   matrices |-> Deref(h.matrices, p.matrices),
   kernels |-> p.kernels, output |-> h.arrays[p.output], options |-> p.options,
   deltas |-> Deref(h.matrices, p.deltas),
   gradients |-> Deref(h.arrays, p.gradients),
   trainerKernels |-> p.trainerKernels]

\* the objects v after a backward that wrote r; the call returns nothing
AfterBackward(v, r) ==
  [state |-> [v EXCEPT !.tensors = r.tensors, !.output = r.output,
                       !.gradients = r.gradients, !.matrices = r.matrices,
                       !.deltas = r.deltas],
   result |-> <<>>, value |-> Undefined]

\* the objects v after the forward pass r of forward(input) or of
\* error(input, expect), and what the call returns
AfterForward(v, op, expect, r) ==
  [state |-> [v EXCEPT !.tensors = r.tensors, !.output = r.output],
   result |-> IF op = "forward" THEN r.output ELSE <<>>,
   value |-> IF op = "error" THEN ErrorRadicand(r.output, expect) ELSE Undefined]

\* forward, error or backward on the objects v: the objects after the call
\* and what the call returns
CallOn(v, op, input, expect) ==
  IF op = "backward"
  THEN AfterBackward(v, Backward(v.tensors, v.matrices, v.kernels, v.output,
                                 v.deltas, v.gradients, v.trainerKernels,
                                 v.options, input, expect))
  ELSE AfterForward(v, op, expect,
                    Forward(v.tensors, v.matrices, v.kernels, v.output, input))

\* objects after the stores `vals` made through the references `refs`
StoreAll(objects, refs, vals) ==
  [a \in DOMAIN objects |->
     IF \E i \in DOMAIN refs : refs[i] = a
     THEN vals[CHOOSE i \in DOMAIN refs : refs[i] = a]
     ELSE objects[a]]

\* the heap after a call of pair p left its objects as v
PairStore(h, p, v) ==
  [tensors |-> StoreAll(h.tensors, p.tensors, v.tensors),
   matrices |-> StoreAll(StoreAll(h.matrices, p.matrices, v.matrices),
                         p.deltas, v.deltas),
   arrays |-> [StoreAll(h.arrays, p.gradients, v.gradients)
                 EXCEPT ![p.output] = v.output]]

\* the networks and options the two pairs are built from
PairBuilds ==
  {[topo |-> <<2, 1>>, acts |-> "identity", bias |-> One, given |-> NoOptions],
   [topo |-> <<2, 1>>, acts |-> "relu", bias |-> Int2Num(2),
    given |-> [seed |-> Zero, step |-> One, momentum |-> One]],
   [topo |-> <<1, 1, 2>>, acts |-> "relu", bias |-> One,
    given |-> [seed |-> One, step |-> One, momentum |-> Undefined]],
   [topo |-> <<1, 1, 2>>, acts |-> "identity", bias |-> One,
    given |-> [seed |-> One, step |-> Int2Num(2), momentum |-> One]],
   [topo |-> <<1, 1, 2>>, acts |-> "identity", bias |-> One,
    given |-> [seed |-> Int2Num(2), step |-> One, momentum |-> One]]}

\* new Trainer(new Network(tensors), given) over the Tensor objects
\* tensorRefs: the heap and the references the pair holds
BuildPairOn(h, tensorRefs, given) ==
  LET n == NetworkAt(h, tensorRefs)
      t == TrainerAt(n.heap, n, given)
  IN  [heap |-> t.heap,
       pair |-> [tensors |-> n.tensors, output |-> n.output, matrices |-> n.matrices,
                 kernels |-> n.kernels, options |-> t.options, deltas |-> t.deltas,
                 gradients |-> t.gradients, trainerKernels |-> t.trainerKernels,
                 backwards |-> 0]]

\* the same over new Tensor objects
BuildPair(h, b) ==
  LET t == NewTensors(h, b.topo, b.acts, b.bias)
  IN  BuildPairOn(t.heap, t.tensors, b.given)

NoPairCall ==
  [pair |-> 0, op |-> "none", input |-> <<>>, expect |-> <<>>, result |-> <<>>,
   value |-> Undefined, aloneResult |-> <<>>, aloneValue |-> Undefined,
   before |-> EmptyHeap, calls |-> 0]

\* two pairs, the second built from Tensor objects of its own or (share) from
\* the Tensor objects of the first
InitPairs ==
  /\ Construct(<<2, 1>>, <<"identity">>, One, NoOptions, 0)
  /\ NoObjects
  /\ NoGraph
  /\ NoSide
  /\ \E b1 \in PairBuilds, b2 \in PairBuilds, share \in BOOLEAN :
       /\ share => (b1.topo = b2.topo /\ b1.acts = b2.acts /\ b1.bias = b2.bias)
       /\ LET p1 == BuildPair(EmptyHeap, b1)
              p2 == IF share THEN BuildPairOn(p1.heap, p1.pair.tensors, b2.given)
                    ELSE BuildPair(p1.heap, b2)
          IN  /\ heap = p2.heap
              /\ pairs = <<p1.pair, p2.pair>>
              /\ alone = <<PairView(p1.heap, p1.pair), PairView(p2.heap, p2.pair)>>
              /\ lastPair = NoPairCall

\* every number the objects v hold
ViewNumbers(v) ==
  UNION ({{v.tensors[i].data[j] : j \in DOMAIN v.tensors[i].data} : i \in DOMAIN v.tensors}
         \cup {{v.matrices[k].data[n] : n \in DOMAIN v.matrices[k].data} : k \in DOMAIN v.matrices}
         \cup {{v.deltas[k].data[n] : n \in DOMAIN v.deltas[k].data} : k \in DOMAIN v.deltas}
         \cup {{v.gradients[i][j] : j \in DOMAIN v.gradients[i]} : i \in DOMAIN v.gradients})

\* a call op(input, expect) on pair p
PairCall(p, op, input, expect) ==
  /\ lastPair.calls < MaxPairCalls
  /\ \A x \in ViewNumbers(PairView(heap, pairs[p])) \cup ViewNumbers(alone[p]) :
       Abs(x[1]) <= MaxMag /\ x[2] <= MaxMag
  /\ \E r \in {CallOn(PairView(heap, pairs[p]), op, input, expect)},
        a \in {CallOn(alone[p], op, input, expect)} :
       /\ heap' = PairStore(heap, pairs[p], r.state)
       /\ alone' = [alone EXCEPT ![p] = a.state]
       /\ lastPair' = [pair |-> p, op |-> op, input |-> input, expect |-> expect,
                       result |-> r.result, value |-> r.value,
                       aloneResult |-> a.result, aloneValue |-> a.value,
                       before |-> heap, calls |-> lastPair.calls + 1]
  /\ pairs' = [pairs EXCEPT ![p].backwards = @ + (IF op = "backward" THEN 1 ELSE 0)]
  /\ UNCHANGED <<flatVars, objectVars, graphVars, sideVars>>

PairInputs(p) == Inputs(PairView(heap, pairs[p]).tensors)
PairOutputs(p) == Outputs(PairView(heap, pairs[p]).tensors)

PairForward(p, input) == PairCall(p, "forward", input, <<>>)
PairError(p, input, expect) == PairCall(p, "error", input, expect)
PairBackward(p, input, expect) == PairCall(p, "backward", input, expect)

NextPairs ==
  \/ \E p \in DOMAIN pairs : \E input \in CallArgs(PairInputs(p)) :
       PairForward(p, input)
  \/ \E p \in DOMAIN pairs :
       \E input \in ArraysOver(PairInputs(p), {One}),
          expect \in ArraysOver(PairOutputs(p), InVals) :
         PairError(p, input, expect)
  \/ \E p \in DOMAIN pairs :
       \E input \in ArraysOver(PairInputs(p), InVals),
          expect \in ArraysOver(PairOutputs(p), {One}) :
         PairBackward(p, input, expect)

SpecPairs == InitPairs /\ [][NextPairs]_vars

PairSizes(p) == [i \in DOMAIN pairs[p].tensors |->
                   Length(heap.tensors[pairs[p].tensors[i]].data)]
PairMatrices(p) == Deref(heap.matrices, pairs[p].matrices)

\* the number of weights of the matrices before matrix k of pair p
RECURSIVE WeightsBefore(_, _)
WeightsBefore(p, k) ==
  IF k = 0 THEN 0
  ELSE WeightsBefore(p, k - 1)
         + PairMatrices(p)[k - 1].inputs * PairMatrices(p)[k - 1].outputs

\* C11: two trainers over networks of the same layer sizes and with the same
\* seed hold the same initial weights; the draws of the generator go to the
\* matrices in order, output index outermost and input index innermost, so
\* weight (i, o) of a matrix is draw number o * inputs + i of that matrix and
\* lies at index o * inputs + i of its data.
C11_SeedingReproducible ==
  /\ \A p \in DOMAIN pairs :
       pairs[p].backwards = 0 =>
         \A k \in DOMAIN pairs[p].matrices :
           LET m == PairMatrices(p)[k]
           IN  \A i \in 0..(m.inputs - 1), o \in 0..(m.outputs - 1) :
                 LET draw == WeightsBefore(p, k) + o * m.inputs + i
                 IN  /\ MatrixGet(m, i, o) = RandomWeight(pairs[p].options.seed, draw)
                     /\ m.data[o * m.inputs + i] = MatrixGet(m, i, o)
  /\ \A p \in DOMAIN pairs, q \in DOMAIN pairs :
       (/\ PairSizes(p) = PairSizes(q)
        /\ pairs[p].options.seed = pairs[q].options.seed
        /\ pairs[p].backwards = 0 /\ pairs[q].backwards = 0)
         => PairMatrices(p) = PairMatrices(q)

\* two untrained trainers over three-layer networks of the same sizes, built
\* from different Tensor objects with the same seed and different steps,
\* whose last matrix holds two different weights in one row of its data
C11_Witness ==
  /\ pairs[1].tensors # pairs[2].tensors
  /\ PairSizes(1) = PairSizes(2) /\ Length(PairSizes(1)) = 3
  /\ pairs[1].options.seed = pairs[2].options.seed
  /\ pairs[1].options.step # pairs[2].options.step
  /\ pairs[1].backwards = 0 /\ pairs[2].backwards = 0
  /\ MatrixGet(PairMatrices(1)[1], 0, 1) # MatrixGet(PairMatrices(1)[1], 1, 0)
  /\ lastPair.op = "forward"

\* ------------------------------------------------------------------------
\* Constructors and Matrix accessors called directly
\* ------------------------------------------------------------------------
MaxObjectCalls == 2

\* new Network(tensors) for two or more Tensor objects: the fields, or the
\* error thrown (new Array(n) and new Float64Array(n) throw a RangeError for
\* n < 0)
NewNetwork(ts) ==
  LET n == Length(ts)
  IN  IF Length(ts[n - 1].data) - 1 < 0
        THEN [thrown |-> "RangeError", object |-> <<>>]
      ELSE IF \E i \in 0..((n - 1) - 1) :
                Length(ts[i + 0].data) * (Length(ts[i + 1].data) - 1) < 0
        THEN [thrown |-> "RangeError", object |-> <<>>]
      ELSE [thrown |-> "none", object |-> Network(ts)]

\* the arguments tried
UnitCounts == {0 - 2, 0 - 1, 0, 1, 2}
ActivationNames == Activations \cup {"sigmoid", "Tanh", ""}
UnitLists == {<<2, 1>>, <<2, 0>>, <<0, 1>>, <<1, 0 - 1>>, <<0 - 1, 1>>,
              <<1, 0, 1>>, <<1, 0 - 2>>}
ActivationArgs == {Int2Num(0 - 1), Zero, Q(1, 2), Int2Num(2), NaN}
MatrixShapes == {<<2, 2>>, <<3, 1>>}
CellValues == {One, Int2Num(2)}

NoAccess == [op |-> "none", i |-> 0, o |-> 0, value |-> Undefined,
             returned |-> Undefined, thrown |-> "none", before |-> <<>>]
NotApplied == [set |-> FALSE, x |-> Undefined, activated |-> Undefined,
               derived |-> Undefined]
NotMade == [op |-> "none", units |-> 0, name |-> "", list |-> <<>>,
            thrown |-> "none", object |-> <<>>, applied |-> NotApplied]

\* after new Matrix(inputs, outputs)
InitObjects ==
  /\ Construct(<<2, 1>>, <<"identity">>, One, NoOptions, 0)
  /\ NoPairs
  /\ NoGraph
  /\ NoSide
  /\ made = NotMade
  /\ \E shape \in MatrixShapes : cells = Matrix(shape[1], shape[2])
  /\ access = NoAccess
  /\ objectCalls = 0

\* new Tensor(units, name, bias)
NewTensorCall(units, name, bias) ==
  /\ objectCalls < MaxObjectCalls
  /\ objectCalls' = objectCalls + 1
  /\ \E r \in {NewTensor(units, name, bias)} :
       made' = [op |-> "Tensor", units |-> units, name |-> name, list |-> <<>>,
                thrown |-> r.thrown, object |-> r.object, applied |-> NotApplied]
  /\ UNCHANGED <<cells, access, flatVars, pairVars, graphVars, sideVars>>

\* tensor.activation.activate(x) and tensor.activation.derive(x) on the
\* Tensor made last
ActivationCall(x) ==
  /\ objectCalls < MaxObjectCalls
  /\ objectCalls' = objectCalls + 1
  /\ made.op = "Tensor" /\ made.thrown = "none"
  /\ made' = [made EXCEPT !.applied =
                [set |-> TRUE, x |-> x,
                 activated |-> Activate(made.object.activation, x),
                 derived |-> Derive(made.object.activation, x)]]
  /\ UNCHANGED <<cells, access, flatVars, pairVars, graphVars, sideVars>>

\* new Network([new Tensor(list[1]), new Tensor(list[2]), ..]): the first
\* constructor that throws ends the expression
NewNetworkCall(list) ==
  /\ objectCalls < MaxObjectCalls
  /\ objectCalls' = objectCalls + 1
  /\ LET rs == [i \in 0..(Len(list) - 1) |-> NewTensor(list[i + 1], "identity", One)]
         failed == {i \in DOMAIN rs : rs[i].thrown # "none"}
         first == CHOOSE i \in failed : \A j \in failed : i <= j
         r == IF failed # {} THEN rs[first]
              ELSE NewNetwork([i \in DOMAIN rs |-> rs[i].object])
     IN  made' = [op |-> "Network", units |-> 0, name |-> "", list |-> list,
                  thrown |-> r.thrown, object |-> r.object, applied |-> NotApplied]
  /\ UNCHANGED <<cells, access, flatVars, pairVars, graphVars, sideVars>>

\* cells.set(i, o, value)
MatrixSetCall(i, o, value) ==
  /\ objectCalls < MaxObjectCalls
  /\ objectCalls' = objectCalls + 1
  /\ cells' = MatrixSet(cells, i, o, value)
  /\ access' = [op |-> "set", i |-> i, o |-> o, value |-> value,
                returned |-> Undefined, thrown |-> "none", before |-> cells]
  /\ UNCHANGED <<made, flatVars, pairVars, graphVars, sideVars>>

\* cells.get(i, o)
MatrixGetCall(i, o) ==
  /\ objectCalls < MaxObjectCalls
  /\ objectCalls' = objectCalls + 1
  /\ access' = [op |-> "get", i |-> i, o |-> o, value |-> Undefined,
                returned |-> MatrixGet(cells, i, o), thrown |-> "none",
                before |-> cells]
  /\ UNCHANGED <<made, cells, flatVars, pairVars, graphVars, sideVars>>

NextObjects ==
  \/ \E units \in UnitCounts, name \in ActivationNames :
       NewTensorCall(units, name, One)
  \/ \E x \in ActivationArgs : ActivationCall(x)
  \/ \E list \in UnitLists : NewNetworkCall(list)
  \/ \E i \in (0 - 1)..cells.inputs, o \in (0 - 1)..cells.outputs, value \in CellValues :
       MatrixSetCall(i, o, value)
  \/ \E i \in (0 - 1)..cells.inputs, o \in (0 - 1)..cells.outputs :
       MatrixGetCall(i, o)

SpecObjects == InitObjects /\ [][NextObjects]_vars

\* the pair (i, o) lies in the matrix m
InMatrix(m, i, o) == i \in 0..(m.inputs - 1) /\ o \in 0..(m.outputs - 1)

\* C12: Matrix.get(i, o) and Matrix.set(i, o, value) fail with
\* IndexOutOfRange when i is outside [0, inputs) or o outside [0, outputs);
\* such a call returns no cell's value and changes no cell.
C12_MatrixBoundsChecked ==
  (access.op \in {"get", "set"} /\ ~InMatrix(cells, access.i, access.o)) =>
    /\ access.thrown = "IndexOutOfRange"
    /\ access.returned = Undefined
    /\ cells.data = access.before.data

\* C13: new Tensor with a name outside {identity, tanh, binary-step, relu}
\* throws and yields no object; with one of the four names (and a positive
\* unit count) it yields a layer whose activate and derive are those of the
\* table: identity x and 1; binary-step 1 if x >= 0 else 0 for both; relu
\* x if x >= 0 else 0, and 1 if x >= 0 else 0.
C13_ActivationNames ==
  made.op = "Tensor" =>
    /\ made.name \notin {"identity", "tanh", "binary-step", "relu"} =>
         made.thrown # "none" /\ made.object = <<>>
    /\ (made.name \in {"identity", "tanh", "binary-step", "relu"} /\ made.units >= 1) =>
         /\ made.thrown = "none"
         /\ made.object.activation = made.name
         /\ Length(made.object.data) = made.units + 1
    /\ made.applied.set =>
         LET x == made.applied.x
             step == IF IsNumber(x) /\ x[1] >= 0 THEN One ELSE Zero
         IN  /\ made.name = "identity" =>
                  made.applied.activated = x /\ made.applied.derived = One
             /\ made.name = "binary-step" =>
                  made.applied.activated = step /\ made.applied.derived = step
             /\ made.name = "relu" =>
                  /\ made.applied.activated = (IF step = One THEN x ELSE Zero)
                  /\ made.applied.derived = step

\* a layer of two units was asked for with a name select does not know, and
\* the constructor threw
C13_Witness ==
  /\ made.op = "Tensor" /\ made.name = "sigmoid" /\ made.units = 2
  /\ made.thrown = "unknown activation"

\* the layer buffer has at least one unit besides its bias slot
HasUnits(tensor) == Length(tensor.data) - 1 >= 1

\* C14: constructing a layer with a unit count of 0 or less fails; no layer
\* buffer without a non-bias unit and no network holding one is created.
C14_PositiveUnits ==
  /\ made.op = "Tensor" =>
       /\ made.units <= 0 => made.thrown # "none"
       /\ made.thrown = "none" => HasUnits(made.object)
  /\ (made.op = "Network" /\ made.thrown = "none") =>
       \A i \in DOMAIN made.object.tensors : HasUnits(made.object.tensors[i])

\* ------------------------------------------------------------------------
\* Claims about the values Trainer.error and Trainer.backward return
\* ------------------------------------------------------------------------
\* the mean over the outputs() output units of (expected[i] - actual[i])^2
MeanSquare(actual, expected, n) ==
  LET sum == SumTerms([i \in 0..(n - 1) |->
                         Mul(Sub(Index(expected, i), Index(actual, i)),
                             Sub(Index(expected, i), Index(actual, i)))],
                      0..(n - 1))
  IN  IF n = 0 \/ ~IsNumber(sum) THEN NaN ELSE Q(sum[1], sum[2] * n)

\* C15: error(input, expected) returns the root of the mean squared
\* difference between expected and the forward output over the outputs()
\* output units; for every input and expected the result is a number, not
\* negative, and 0 exactly when the forward output equals expected.  (The
\* model holds the number under the root: the root is a non-negative number
\* exactly when that number is, and 0 exactly when it is 0.)
C15_ErrorIsRms ==
  last.op = "error" =>
    /\ last.value = MeanSquare(output, last.expect, Outputs(tensors))
    /\ IsNumber(last.value) /\ last.value[1] >= 0
    /\ last.value = Zero <=> output = last.expect

\* C16: backward(input, expected) returns a number, the error of the example
\* it trained on.
C16_BackwardReturnsError ==
  last.op = "backward" => IsNumber(last.value)

\* ------------------------------------------------------------------------
\* memory.ts, model.ts: the graph representation.  A Memory holds the index
\* arrays (layers, neurons, synapses) and four Float32Array buffers; Layer,
\* Neuron and Synapse are cursors into it.
\* ------------------------------------------------------------------------
\* number of forward and backward calls on the graph network per run
MaxGraphCalls == 3

\* the ascending sequence of a finite set of numbers
RECURSIVE Ascending(_)
Ascending(S) ==
  IF S = {} THEN <<>>
  ELSE LET least == CHOOSE x \in S : \A y \in S : x <= y
       IN  <<least>> \o Ascending(S \ {least})

\* the neuron index the first neuron of layer l gets: every layer before it
\* took descriptor.neurons + 1 indices
RECURSIVE FirstNeuron(_, _)
FirstNeuron(descriptors, l) ==
  IF l <= 0 THEN 0
  ELSE FirstNeuron(descriptors, l - 1) + (descriptors[l - 1].neurons + 1)

\* this.layers = descriptors.map(..)
MemoryLayers(descriptors) ==
  [l \in DOMAIN descriptors |->
     [index |-> l, activation |-> descriptors[l].activation,
      neurons |-> [i \in 0..((descriptors[l].neurons + 1) - 1) |->
                     FirstNeuron(descriptors, l) + i]]]

\* synapse loops whose output_idx starts from 0, the bias neuron of the
\* output layer included
LayerSynapsesIntoBias(layers, i, first) ==
  LET inputLayer == layers[i + 0]
      outputLayer == layers[i + 1]
      ins == Length(inputLayer.neurons)
      outs == Length(outputLayer.neurons)
  IN  [r \in 1..(outs * ins) |->
         [index |-> first + (r - 1),
          output |-> inputLayer.neurons[(r - 1) % ins],
          input |-> outputLayer.neurons[(r - 1) \div ins],
          weight |-> first + (r - 1)]]

\* the synapses pushed for the layers i and i + 1, output_idx from 1 and
\* input_idx from 0 inside it; `first` is synapse_index when the pair begins
LayerSynapses(layers, i, first) ==
  LET inputLayer == layers[i + 0]
      outputLayer == layers[i + 1]
      ins == Length(inputLayer.neurons)
      outs == Length(outputLayer.neurons) - 1
  IN  [r \in 1..(outs * ins) |->
         [index |-> first + (r - 1),
          output |-> inputLayer.neurons[(r - 1) % ins],
          input |-> outputLayer.neurons[((r - 1) \div ins) + 1],
          weight |-> first + (r - 1)]]

\* the synapses of the layer pairs i, i + 1, ..
RECURSIVE SynapsesFrom(_, _, _)
SynapsesFrom(layers, i, first) ==
  IF i >= Length(layers) - 1 THEN <<>>
  ELSE LET pushed == LayerSynapses(layers, i, first)
       IN  pushed \o SynapsesFrom(layers, i + 1, first + Len(pushed))

\* the array of this.synapses[i].index pushed for the positions i of `order`
Pushed(synapses, order) == ArrayOf([k \in 1..Len(order) |-> synapses[order[k]].index])

\* this.neurons, with the inputs and outputs pushed in synapse order
MemoryNeurons(layers, synapses) ==
  LET count == FirstNeuron([l \in DOMAIN layers |->
                              [neurons |-> Length(layers[l].neurons) - 1]],
                           Length(layers))
  IN  [n \in 0..(count - 1) |->
         [index |-> n,
          layer |-> CHOOSE l \in DOMAIN layers :
                      \E j \in DOMAIN layers[l].neurons : layers[l].neurons[j] = n,
          inputs |-> Pushed(synapses, Ascending({s \in DOMAIN synapses : synapses[s].input = n})),
          outputs |-> Pushed(synapses, Ascending({s \in DOMAIN synapses : synapses[s].output = n}))]]

\* new Memory(descriptors), every descriptor.neurons >= 0: the buffers are
\* zero but for the value of the neuron at position 0 of every layer and the
\* weights of its output synapses, which are 1.0
Memory(descriptors) ==
  LET layers == MemoryLayers(descriptors)
      synapses == ArrayOf(SynapsesFrom(layers, 0, 0))
      neurons == MemoryNeurons(layers, synapses)
      isBias(n) == \E l \in DOMAIN layers : layers[l].neurons[0] = n
  IN  [layers |-> layers, synapses |-> synapses, neurons |-> neurons,
       values |-> [n \in DOMAIN neurons |-> IF isBias(n) THEN One ELSE Zero],
       gradients |-> [n \in DOMAIN neurons |-> Zero],
       weights |-> [s \in DOMAIN synapses |->
                      IF isBias(synapses[s].output) THEN One ELSE Zero],
       deltas |-> [s \in DOMAIN synapses |-> Zero]]

\* ------------------------------------------------------------------------
\* network.ts of the graph representation: Network over a Model
\* ------------------------------------------------------------------------
\* the keys of Network.activations and Network.derivitives
GraphActivations == {"tanh"}

\* this.options = this.options || { rate: 0.15, momentum: 0.5 }
NetworkOptions(opts) ==
  IF opts.given THEN [rate |-> opts.rate, momentum |-> opts.momentum]
  ELSE [rate |-> Q(15, 100), momentum |-> Q(5, 10)]

\* the neurons of layer l after skip(1), as an array
SkipBias(mem, l) ==
  [i \in 0..((Length(mem.layers[l].neurons) - 1) - 1) |-> mem.layers[l].neurons[i + 1]]

\* the constructor's seeding: every output synapse of the neurons after the
\* first of every layer gets (Math.random() - 0.5) * 2.0, here draws[s]
SeedSynapses(mem, draws) ==
  [mem EXCEPT !.weights =
     [s \in DOMAIN mem.weights |->
        IF \E l \in DOMAIN mem.layers : \E i \in DOMAIN SkipBias(mem, l) :
             SkipBias(mem, l)[i] = mem.synapses[s].output
        THEN ToNumber(draws[s])
        ELSE mem.weights[s]]]

\* first layer: neurons().skip(1).each((neuron, index) => neuron.value(input[index]));
\* value(undefined) stores nothing
LoadValues(mem, input) ==
  LET first == SkipBias(mem, 0)
  IN  [mem EXCEPT !.values =
         [n \in DOMAIN mem.values |->
            IF \E index \in DOMAIN first :
                 first[index] = n /\ Index(input, index) # Undefined
            THEN ToNumber(input[CHOOSE index \in DOMAIN first : first[index] = n])
            ELSE mem.values[n]]]

\* neuron.inputs().aggregate((acc, synapse) =>
\*   acc + synapse.weight() * synapse.target().value(), 0) over the first n
\* input synapses; the target of an input synapse is synapse.output
RECURSIVE InputAggregate(_, _, _)
InputAggregate(mem, inputs, n) ==
  IF n <= 0 THEN Zero
  ELSE LET synapse == mem.synapses[inputs[n - 1]]
       IN  Add(InputAggregate(mem, inputs, n - 1),
               Mul(mem.weights[synapse.weight], mem.values[synapse.output]))

\* hidden.neurons().each(neuron => neuron.value(activate(sum))) for layer l:
\* every neuron of the layer, the one at position 0 included
FeedLayer(mem, l) ==
  [mem EXCEPT !.values =
     [n \in DOMAIN mem.values |->
        IF mem.neurons[n].layer = l
        THEN Tanh(InputAggregate(mem, mem.neurons[n].inputs,
                                 Length(mem.neurons[n].inputs)))
        ELSE mem.values[n]]]

\* layers().skip(1).each(..) from layer l on; calling the activation of a
\* name that is not in the table throws a TypeError
RECURSIVE FeedLayers(_, _)
FeedLayers(mem, l) ==
  IF l >= Length(mem.layers) THEN [memory |-> mem, thrown |-> "none"]
  ELSE IF mem.layers[l].activation \notin GraphActivations
    THEN [memory |-> mem, thrown |-> "TypeError"]
  ELSE FeedLayers(FeedLayer(mem, l), l + 1)

\* Network.forward(input): the memory after the call and the new array the
\* call returns, the values of the last layer after skip(1)
GraphForward(mem, input) ==
  LET fed == FeedLayers(LoadValues(mem, input), 1)
      out == SkipBias(mem, Length(mem.layers) - 1)
  IN  [memory |-> fed.memory, thrown |-> fed.thrown,
       result |-> IF fed.thrown = "none"
                  THEN [i \in DOMAIN out |-> fed.memory.values[out[i]]]
                  ELSE <<>>]

\* backward, first loop: the gradients of the last layer after skip(1)
LastGradients(mem, expected) ==
  LET l == Length(mem.layers) - 1
      out == SkipBias(mem, l)
  IN  IF DOMAIN out # {} /\ mem.layers[l].activation \notin GraphActivations
      THEN [memory |-> mem, thrown |-> "TypeError"]
      ELSE [memory |->
              [mem EXCEPT !.gradients =
                 [n \in DOMAIN mem.gradients |->
                    IF \E index \in DOMAIN out : out[index] = n
                    THEN LET index == CHOOSE i \in DOMAIN out : out[i] = n
                             delta == Sub(Index(expected, index), mem.values[n])
                         IN  Mul(delta, Sub(One, Mul(mem.values[n], mem.values[n])))
                    ELSE mem.gradients[n]]],
            thrown |-> "none"]

\* neuron.outputs().aggregate((acc, synapse) =>
\*   acc + synapse.weight() * synapse.target().gradient(), 0); the target of
\* an output synapse is synapse.input
RECURSIVE OutputAggregate(_, _, _)
OutputAggregate(mem, outputs, n) ==
  IF n <= 0 THEN Zero
  ELSE LET synapse == mem.synapses[outputs[n - 1]]
       IN  Add(OutputAggregate(mem, outputs, n - 1),
               Mul(mem.weights[synapse.weight], mem.gradients[synapse.input]))

\* backward, second loop: layers().skip(1).reverse().skip(1), from layer l
\* down to layer 1, the neurons after skip(1)
RECURSIVE InnerGradients(_, _)
InnerGradients(mem, l) ==
  IF l < 1 THEN [memory |-> mem, thrown |-> "none"]
  ELSE IF DOMAIN SkipBias(mem, l) # {} /\ mem.layers[l].activation \notin GraphActivations
    THEN [memory |-> mem, thrown |-> "TypeError"]
  ELSE InnerGradients(
         [mem EXCEPT !.gradients =
            [n \in DOMAIN mem.gradients |->
               IF \E i \in DOMAIN SkipBias(mem, l) : SkipBias(mem, l)[i] = n
               THEN Mul(OutputAggregate(mem, mem.neurons[n].outputs,
                                        Length(mem.neurons[n].outputs)),
                        Sub(One, Mul(mem.values[n], mem.values[n])))
               ELSE mem.gradients[n]]],
         l - 1)

\* backward, third loop: every input synapse of the neurons after skip(1)
\* of the layers after the first
UpdateSynapses(mem, opts) ==
  LET updated(s) == \E l \in 1..(Length(mem.layers) - 1) :
                      \E i \in DOMAIN SkipBias(mem, l) :
                        SkipBias(mem, l)[i] = mem.synapses[s].input
      newdelta(s) == Add(Mul(Mul(opts.rate, mem.values[mem.synapses[s].output]),
                             mem.gradients[mem.synapses[s].input]),
                         Mul(opts.momentum, mem.deltas[mem.synapses[s].weight]))
  IN  [mem EXCEPT
         !.weights = [s \in DOMAIN mem.weights |->
                        IF updated(s) THEN Add(mem.weights[s], newdelta(s))
                        ELSE mem.weights[s]],
         !.deltas = [s \in DOMAIN mem.deltas |->
                       IF updated(s) THEN newdelta(s) ELSE mem.deltas[s]]]

\* Network.backward(actual, expected): the memory after the call; `actual`
\* is not read
GraphBackward(mem, opts, actual, expected) ==
  LET g1 == LastGradients(mem, expected)
      g2 == IF g1.thrown = "none"
            THEN InnerGradients(g1.memory, Length(mem.layers) - 2)
            ELSE g1
  IN  IF g2.thrown = "none"
      THEN [memory |-> UpdateSynapses(g2.memory, opts), thrown |-> "none"]
      ELSE g2

\* ------------------------------------------------------------------------
\* A graph Network and a flat Network+Trainer of the same shape, given the
\* same calls: network.forward(x) with trainer.forward(x), and
\* network.backward(actual, expected) after network.forward(x) with
\* trainer.backward(x, expected).
\* ------------------------------------------------------------------------
\* the activation of a descriptor that names none
NoActivation == "undefined"

\* the layer sizes, activations and options tried
GraphTopologies == {<<1, 1>>, <<2, 1>>, <<1, 1, 1>>}
GraphKinds == {"tanh", "relu"}
GraphOptionsTried ==
  {[given |-> FALSE, rate |-> Undefined, momentum |-> Undefined],
   [given |-> TRUE, rate |-> One, momentum |-> One]}

\* the values (Math.random() - 0.5) * 2.0 tried, of the interval [-1, 1)
GraphDraws == {Int2Num(0 - 1), Zero, Q(1, 2)}

\* [{neurons: n0}, {neurons: n1, activation: kind}, ..]
Descriptors(topo, kind) ==
  [l \in 0..(Len(topo) - 1) |->
     [neurons |-> topo[l + 1],
      activation |-> IF l = 0 THEN NoActivation ELSE kind]]

\* the synapse from position j of layer k to position q of layer k + 1
Connection(mem, k, j, q) ==
  CHOOSE s \in DOMAIN mem.synapses :
    /\ mem.synapses[s].output = mem.layers[k].neurons[j]
    /\ mem.synapses[s].input = mem.layers[k + 1].neurons[q]

\* the synapse that corresponds to cell (i, o) of flat matrix k: the flat
\* layer keeps its bias in the last slot, the graph layer at position 0
CellSynapse(mem, k, i, o) ==
  Connection(mem, k, IF i = Length(mem.layers[k].neurons) - 1 THEN 0 ELSE i + 1, o + 1)

\* the buffer `buffer` of the synapses laid out as the data of flat matrix m
AsMatrix(mem, buffer, k, m) ==
  [m EXCEPT !.data = [n \in DOMAIN m.data |->
                        buffer[CellSynapse(mem, k, n % m.inputs, n \div m.inputs)]]]

\* new Trainer(new Network([new Tensor(n0), new Tensor(n1, kind), ..]),
\* {step: rate, momentum}) followed by matrix.set(i, o, weight) of the weight
\* of the corresponding synapse, for every cell
FlatTwin(mem, topo, kind, opts) ==
  LET ts == [i \in 0..(Len(topo) - 1) |->
               IF i = 0 THEN Tensor(topo[1], "identity", One)
               ELSE Tensor(topo[i + 1], kind, One)]
      net == Network(ts)
      tr == Trainer(net, [seed |-> Undefined, step |-> opts.rate,
                          momentum |-> opts.momentum])
  IN  [tensors |-> net.tensors,
       matrices |-> [k \in DOMAIN net.matrices |->
                       AsMatrix(mem, mem.weights, k, net.matrices[k])],
       kernels |-> net.kernels, output |-> net.output, options |-> tr.options,
       deltas |-> tr.deltas, gradients |-> tr.gradients,
       trainerKernels |-> tr.kernels]

NoGraphCall ==
  [op |-> "none", input |-> <<>>, expected |-> <<>>, result |-> <<>>,
   thrown |-> "none"]

\* after new Network(new Model(descriptors), options) and the twin's
\* construction
InitGraph ==
  /\ Construct(<<2, 1>>, <<"identity">>, One, NoOptions, 0)
  /\ NoPairs
  /\ NoObjects
  /\ NoSide
  /\ \E topo \in GraphTopologies, kind \in GraphKinds, opts \in GraphOptionsTried :
       \E draws \in [DOMAIN Memory(Descriptors(topo, kind)).synapses -> GraphDraws] :
         /\ memory = SeedSynapses(Memory(Descriptors(topo, kind)), draws)
         /\ graph = [options |-> NetworkOptions(opts), calls |-> 0,
                     last |-> NoGraphCall, paired |-> TRUE]
         /\ twin = [state |-> FlatTwin(memory, topo, kind, opts),
                    result |-> <<>>]

\* every number the memory holds
MemoryNumbers(mem) ==
  {mem.values[n] : n \in DOMAIN mem.values}
    \cup {mem.gradients[n] : n \in DOMAIN mem.gradients}
    \cup {mem.weights[s] : s \in DOMAIN mem.weights}
    \cup {mem.deltas[s] : s \in DOMAIN mem.deltas}

CanCallGraph ==
  /\ graph.calls < MaxGraphCalls
  /\ \A x \in MemoryNumbers(memory) \cup ViewNumbers(twin.state) :
       Abs(x[1]) <= MaxMag /\ x[2] <= MaxMag

\* network.forward(input), and trainer.forward(input) on the twin
GraphForwardCall(input) ==
  /\ CanCallGraph
  /\ \E r \in {GraphForward(memory, input)},
        t \in {CallOn(twin.state, "forward", input, <<>>)} :
       /\ memory' = r.memory
       /\ graph' = [graph EXCEPT !.calls = @ + 1,
                                 !.last = [op |-> "forward", input |-> input,
                                           expected |-> <<>>, result |-> r.result,
                                           thrown |-> r.thrown]]
       /\ twin' = [state |-> t.state, result |-> t.result]
  /\ UNCHANGED <<flatVars, pairVars, objectVars, sideVars>>

\* network.backward(actual, expected); when the call follows a forward(x),
\* trainer.backward(x, expected) on the twin
GraphBackwardCall(actual, expected) ==
  /\ CanCallGraph
  /\ \E r \in {GraphBackward(memory, graph.options, actual, expected)} :
       /\ memory' = r.memory
       /\ graph' = [graph EXCEPT !.calls = @ + 1,
                                 !.last = [op |-> "backward", input |-> graph.last.input,
                                           expected |-> expected, result |-> <<>>,
                                           thrown |-> r.thrown],
                                 !.paired = @ /\ graph.last.op = "forward"]
  /\ twin' = IF graph.last.op = "forward"
             THEN [state |-> CallOn(twin.state, "backward", graph.last.input,
                                    expected).state,
                   result |-> <<>>]
             ELSE twin
  /\ UNCHANGED <<flatVars, pairVars, objectVars, sideVars>>

GraphInputs == Length(memory.layers[0].neurons) - 1
GraphOutputs == Length(memory.layers[Length(memory.layers) - 1].neurons) - 1

NextGraph ==
  \/ \E input \in ArraysOver(GraphInputs, InVals) \cup ArraysOver(GraphInputs - 1, {One}) :
       GraphForwardCall(input)
  \/ \E actual \in {graph.last.result},
        expected \in ArraysOver(GraphOutputs, InVals) :
       GraphBackwardCall(actual, expected)

SpecGraph == InitGraph /\ [][NextGraph]_vars

\* the bias neurons: the neuron at position 0 of every layer
BiasNeurons == {memory.layers[l].neurons[0] : l \in DOMAIN memory.layers}

\* C18: in the graph representation the neuron at position 0 of every layer
\* holds 1.0 after construction and after every sequence of forward and
\* backward calls.
C18_GraphBiasKept ==
  \A n \in BiasNeurons : memory.values[n] = One

\* the weights and the deltas of the twin are those of the corresponding
\* synapses
SameConnections ==
  \A k \in DOMAIN twin.state.matrices :
    /\ twin.state.matrices[k] = AsMatrix(memory, memory.weights, k, twin.state.matrices[k])
    /\ twin.state.deltas[k] = AsMatrix(memory, memory.deltas, k, twin.state.deltas[k])

\* C19: the graph network and the flat network of the same layer sizes,
\* activation, rate and momentum, started from equal weights on corresponding
\* connections, return the same outputs from forward(x), and after
\* forward(x); backward(actual, expected) against Trainer.backward(x,
\* expected) hold the same weights and deltas on corresponding connections,
\* whatever sequence of such steps was made.
C19_SameMachine ==
  graph.paired =>
    /\ graph.last.op = "forward" =>
         /\ graph.last.thrown = "none"
         /\ graph.last.result = twin.result
    /\ graph.last.op = "backward" => graph.last.thrown = "none"
    /\ SameConnections

\* ------------------------------------------------------------------------
\* Claims about two Network+Trainer pairs
\* ------------------------------------------------------------------------
\* the Tensor objects of the two pairs are different objects
DisjointTensors ==
  {pairs[1].tensors[i] : i \in DOMAIN pairs[1].tensors}
    \cap {pairs[2].tensors[i] : i \in DOMAIN pairs[2].tensors} = {}

\* C20: two Network+Trainer pairs built from disjoint layer buffers share no
\* state: in every interleaving of forward, error and backward calls a call
\* on one pair leaves every layer buffer, weight, gradient and delta (and the
\* output array) of the other pair as it was, and every pair holds the state
\* and gets the results it has when its calls are run alone.
C20_PairsIndependent ==
  DisjointTensors =>
    /\ \A p \in DOMAIN pairs : PairView(heap, pairs[p]) = alone[p]
    /\ lastPair.op # "none" =>
         /\ lastPair.result = lastPair.aloneResult
         /\ lastPair.value = lastPair.aloneValue
         /\ \A q \in DOMAIN pairs \ {lastPair.pair} :
              PairView(heap, pairs[q]) = PairView(lastPair.before, pairs[q])

\* a backward on the second pair after a backward on the first, the pairs
\* built from Tensor objects of their own
C20_Witness ==
  /\ DisjointTensors
  /\ lastPair.op = "backward" /\ lastPair.pair = 2 /\ lastPair.calls = 2
  /\ pairs[1].backwards = 1
  /\ PairView(heap, pairs[2]) # PairView(lastPair.before, pairs[2])

\* ------------------------------------------------------------------------
\* sequence.ts: Sequence.window
\* ------------------------------------------------------------------------
\* number of window calls per run
MaxWindowCalls == 2

\* for (j = 0; j < size; j++) if (i + j < array.length) window.push(array[i + j]),
\* from j on; `window` holds what was pushed so far
RECURSIVE WindowFrom(_, _, _, _, _)
WindowFrom(array, i, size, j, window) ==
  IF j >= size THEN window
  ELSE WindowFrom(array, i, size, j + 1,
                  IF i + j < Length(array) THEN Append(window, array[i + j])
                  ELSE window)

\* for (i = 0; i < array.length; i += step) buffer.push(window), from i on,
\* for a step that is positive
RECURSIVE WindowsFrom(_, _, _, _, _)
WindowsFrom(array, size, step, i, buffer) ==
  IF i >= Length(array) THEN buffer
  ELSE WindowsFrom(array, size, step, i + step,
                   Append(buffer, ArrayOf(WindowFrom(array, i, size, 0, <<>>))))

\* Sequence.window(size, step): the array of the returned sequence.  With
\* step 0 the loop does not advance: on a sequence that is not empty the
\* call does not return.
Window(array, size, step) ==
  IF step = 0 /\ Length(array) > 0
  THEN [returned |-> FALSE, result |-> <<>>]
  ELSE [returned |-> TRUE,
        result |-> ArrayOf(WindowsFrom(array, size, step, 0, <<>>))]

\* the elements, lengths, sizes and steps tried
Elements == {1, 2}
SequenceLengths == 0..4
WindowSizes == 0..3
WindowSteps == 0..3

NoWindow == [size |-> 0, step |-> 0, called |-> FALSE, returned |-> FALSE,
             result |-> <<>>, calls |-> 0]

\* after new Sequence(array)
InitSequence ==
  /\ Construct(<<2, 1>>, <<"identity">>, One, NoOptions, 0)
  /\ NoPairs
  /\ NoObjects
  /\ NoGraph
  /\ \E n \in SequenceLengths : sequence \in ArraysOver(n, Elements)
  /\ windowed = NoWindow
  /\ random = <<>>
  /\ shadow = <<>>

\* sequence.window(size, step)
WindowCall(size, step) ==
  /\ windowed.calls < MaxWindowCalls
  /\ \E r \in {Window(sequence, size, step)} :
       windowed' = [size |-> size, step |-> step, called |-> TRUE,
                    returned |-> r.returned, result |-> r.result,
                    calls |-> windowed.calls + 1]
  /\ UNCHANGED <<sequence, random, shadow, flatVars, pairVars, objectVars, graphVars>>

NextSequence ==
  \E size \in WindowSizes, step \in WindowSteps : WindowCall(size, step)

SpecSequence == InitSequence /\ [][NextSequence]_vars

\* C21: window(size, step) with a positive step returns one window for each
\* start index 0, step, 2*step, .. below the length of the sequence, and
\* every window is an array of exactly `size` elements, element j of the
\* window that starts at i being element i + j of the sequence.
C21_WindowsOfSize ==
  (windowed.called /\ windowed.step > 0) =>
    /\ windowed.returned
    /\ DOMAIN windowed.result = {w \in 0..(Length(sequence) - 1) :
                                   w * windowed.step < Length(sequence)}
    /\ \A w \in DOMAIN windowed.result :
         /\ Length(windowed.result[w]) = windowed.size
         /\ \A j \in DOMAIN windowed.result[w] :
              windowed.result[w][j] = Index(sequence, w * windowed.step + j)

\* ------------------------------------------------------------------------
\* Claims about the phases of Trainer.backward
\* ------------------------------------------------------------------------
\* C22: no gradient is computed for a bias slot: after any sequence of
\* backward calls the entry at the last index of every gradient buffer is
\* the 0 it was constructed with, whatever the activations and the bias.
C22_NoBiasGradient ==
  \A i \in DOMAIN gradients : gradients[i][BiasSlot(i)] = Zero

\* C23: the hidden-gradient phase visits the kernels L-2 down to 1 only; for
\* each it sets grad[i] of the kernel's input layer to (sum over o of
\* matrix.get(i, o) * grad[o] of the kernel's output layer) times the
\* derivative of the input layer's activation at the stored value of unit i,
\* with the gradients of the output layer computed in this same call; the
\* gradient buffer of layer 0 is never written and is all zero in every
\* reachable state.
C23_HiddenGradients ==
  /\ \A j \in DOMAIN gradients[0] : gradients[0][j] = Zero
  /\ last.op = "backward" =>
       \A k \in 1..(Layers - 2) : \A i \in 0..(matrices[k].inputs - 1) :
         gradients[k][i] =
           Mul(OutputSum(last.before.matrices[k], gradients[k + 1], i),
               Derive(tensors[k].activation, tensors[k].data[i]))

\* a second backward call on three layers, given an input other than 0, that
\* changed a weight of the first kernel and left a hidden gradient other
\* than 0
C23_Witness ==
  /\ last.op = "backward" /\ Layers = 3 /\ training.backwards = 2
  /\ \E j \in DOMAIN last.input : last.input[j] # Zero
  /\ matrices[0] # last.before.matrices[0]
  /\ \E i \in DOMAIN gradients[1] : IsNumber(gradients[1][i]) /\ gradients[1][i] # Zero

\* C24: after backward(input, expected) the gradient of every output unit
\* o < outputs() is (expected[o] - value[o]) * derive(value[o]), value[o]
\* being what this call's forward pass stored in the last layer: the
\* derivative is taken at the activated value, not at the weighted sum.
C24_OutputGradients ==
  last.op = "backward" =>
    \A o \in 0..(Outputs(tensors) - 1) :
      LET value == tensors[Layers - 1].data[o]
      IN  /\ value = Activate(tensors[Layers - 1].activation,
                              InputSum(last.before.matrices[Layers - 2],
                                       tensors[Layers - 2].data, o))
          /\ gradients[Layers - 1][o] =
               Mul(Sub(Index(last.expect, o), value),
                   Derive(tensors[Layers - 1].activation, value))

\* a backward call whose output unit has a negative weighted sum under relu:
\* the derivative at the sum is 0, at the activated value 0 it is 1, and the
\* gradient is not 0
C24_Witness ==
  /\ last.op = "backward" /\ tensors[Layers - 1].activation = "relu"
  /\ \E o \in 0..(Outputs(tensors) - 1) :
       LET sum == InputSum(last.before.matrices[Layers - 2],
                           tensors[Layers - 2].data, o)
       IN  /\ IsNumber(sum) /\ sum[1] < 0
           /\ IsNumber(gradients[Layers - 1][o])
           /\ gradients[Layers - 1][o] # Zero

\* every order in which the kernels 0..n-1 can be visited
KernelOrders(n) ==
  {order \in [1..n -> 0..(n - 1)] :
     \A a \in 1..n, b \in 1..n : order[a] = order[b] => a = b}

\* the weight update of the kernels order[1], .., order[n], in this order
RECURSIVE UpdateInOrder(_, _, _, _, _, _, _, _)
UpdateInOrder(ts, ms, ds, gs, tks, opts, order, n) ==
  IF n <= 0 THEN [matrices |-> ms, deltas |-> ds]
  ELSE LET done == UpdateInOrder(ts, ms, ds, gs, tks, opts, order, n - 1)
           kernel == tks[order[n]]
           r == UpdateKernel(done.matrices[kernel.matrix.matrix],
                             done.deltas[kernel.matrix.deltas],
                             ts[kernel.input.tensor].data,
                             gs[kernel.output.grads], opts, 0)
       IN  [matrices |-> [done.matrices EXCEPT ![kernel.matrix.matrix] = r.matrix],
            deltas |-> [done.deltas EXCEPT ![kernel.matrix.deltas] = r.deltas]]

\* C25: the weight-update phase leaves the same weights and deltas for every
\* order in which the kernels are visited: the update of kernel k reads only
\* matrix k, delta matrix k, the values of layer k and the gradients of layer
\* k+1, and the update of no other kernel writes any of them.
C25_UpdateOrderFree ==
  last.op = "backward" =>
    /\ \A order \in KernelOrders(Layers - 1) :
         LET r == UpdateInOrder(tensors, last.before.matrices, last.before.deltas,
                                gradients, trainerKernels, options, order,
                                Layers - 1)
         IN  r.matrices = matrices /\ r.deltas = deltas
    /\ \A k \in 0..(Layers - 2) :
         LET r == UpdateKernel(last.before.matrices[k], last.before.deltas[k],
                               tensors[k].data, gradients[k + 1], options, 0)
         IN  r.matrix = matrices[k] /\ r.deltas = deltas[k]

\* a backward call on three layers that changed a weight of each kernel to a
\* number
C25_Witness ==
  /\ last.op = "backward" /\ Layers = 3
  /\ \A k \in 0..1 : \E n \in DOMAIN matrices[k].data :
       /\ IsNumber(matrices[k].data[n])
       /\ matrices[k].data[n] # last.before.matrices[k].data[n]

\* C26: weights change only in the construction of the trainer and in
\* backward: a forward or error call leaves every weight matrix, every delta
\* matrix and every gradient buffer as it was, and of the layer buffers it
\* writes only slots other than the bias slot.
C26_ForwardFrame ==
  last.op \in {"forward", "error"} =>
    /\ matrices = last.before.matrices
    /\ deltas = last.before.deltas
    /\ gradients = last.before.gradients
    /\ \A i \in DOMAIN tensors :
         tensors[i].data[BiasSlot(i)] = last.before.tensors[i].data[BiasSlot(i)]

\* ------------------------------------------------------------------------
\* Two trainers that differ only in the bias entries of their gradient
\* buffers, given the same backward calls
\* ------------------------------------------------------------------------
\* number of backward calls per run
MaxShadowCalls == 2

\* the networks, options and bias entries tried
ShadowKinds == {"identity", "relu"}
ShadowOptions == {NoOptions, [seed |-> One, step |-> One, momentum |-> One]}
BiasEntries == {Int2Num(3), NaN}

\* the objects of new Trainer(new Network([new Tensor(..), ..]), given)
TrainerView(topo, kind, bias, given) ==
  LET ts == [i \in 0..(Len(topo) - 1) |->
               IF i = 0 THEN Tensor(topo[1], "identity", bias)
               ELSE Tensor(topo[i + 1], kind, bias)]
      net == Network(ts)
      tr == Trainer(net, given)
  IN  [tensors |-> net.tensors, matrices |-> tr.matrices, kernels |-> net.kernels,
       output |-> net.output, options |-> tr.options, deltas |-> tr.deltas,
       gradients |-> tr.gradients, trainerKernels |-> tr.kernels]

\* the objects v with `entry` stored at the last index of every gradient
\* buffer
WithBiasEntries(v, entry) ==
  [v EXCEPT !.gradients =
     [i \in DOMAIN v.gradients |->
        TypedStore(v.gradients[i], Length(v.gradients[i]) - 1, entry)]]

InitShadow ==
  /\ Construct(<<2, 1>>, <<"identity">>, One, NoOptions, 0)
  /\ NoPairs
  /\ NoObjects
  /\ NoGraph
  /\ sequence = <<>>
  /\ windowed = <<>>
  /\ random = <<>>
  /\ \E topo \in Topologies, kind \in ShadowKinds, given \in ShadowOptions,
        entry \in BiasEntries :
       \E v \in {TrainerView(topo, kind, One, given)} :
         shadow = [base |-> v, other |-> WithBiasEntries(v, entry), calls |-> 0,
                   input |-> <<>>, expect |-> <<>>, before |-> v]

\* trainer.backward(input, expect) on both trainers
ShadowBackward(input, expect) ==
  /\ shadow.calls < MaxShadowCalls
  /\ \A x \in ViewNumbers(shadow.base) : Abs(x[1]) <= MaxMag /\ x[2] <= MaxMag
  /\ \E b \in {CallOn(shadow.base, "backward", input, expect)},
        o \in {CallOn(shadow.other, "backward", input, expect)} :
       shadow' = [base |-> b.state, other |-> o.state, calls |-> shadow.calls + 1,
                  input |-> input, expect |-> expect, before |-> shadow.base]
  /\ UNCHANGED <<sequence, windowed, random, flatVars, pairVars, objectVars, graphVars>>

NextShadow ==
  \E args \in BackwardArgs(Inputs(shadow.base.tensors), Outputs(shadow.base.tensors)) :
    ShadowBackward(args[1], args[2])

SpecShadow == InitShadow /\ [][NextShadow]_vars

\* the entries of the gradient buffers gs other than the last of each
NonBiasGradients(gs) ==
  [i \in DOMAIN gs |-> [j \in 0..((Length(gs[i]) - 1) - 1) |-> gs[i][j]]]

\* C27: the bias entries of the gradient buffers are never consumed: two
\* runs of backward calls that differ only in the values stored at the last
\* index of the gradient buffers end with equal weights, equal deltas and
\* equal gradients at every other index.
C27_BiasGradientUnread ==
  /\ shadow.base.matrices = shadow.other.matrices
  /\ shadow.base.deltas = shadow.other.deltas
  /\ NonBiasGradients(shadow.base.gradients) = NonBiasGradients(shadow.other.gradients)

\* after two backward calls that changed weights, the two runs still differ
\* in a bias entry of a gradient buffer
C27_Witness ==
  /\ shadow.calls = 2
  /\ shadow.base.matrices # shadow.before.matrices
  /\ \E k \in DOMAIN shadow.base.matrices : \E n \in DOMAIN shadow.base.matrices[k].data :
       IsNumber(shadow.base.matrices[k].data[n])
         /\ shadow.base.matrices[k].data[n] # shadow.before.matrices[k].data[n]
  /\ shadow.base.gradients # shadow.other.gradients

\* ------------------------------------------------------------------------
\* Random: the linear congruential generator, in double precision
\* ------------------------------------------------------------------------
\* number of next() calls per generator
MaxDraws == 12

\* A non-negative integer below 2^75 is kept as five digits in base 2^15,
\* lowest first, so that no step of the arithmetic leaves 32 bits.
Base == 2^15
Digits == 1..5

Big(n) ==
  [k \in Digits |->
     IF k = 1 THEN n % Base
     ELSE IF k = 2 THEN (n \div Base) % Base
     ELSE IF k = 3 THEN n \div (Base * Base)
     ELSE 0]

\* the digits of the number whose k-th column holds cols[k] (carries
\* propagated, lowest column first)
RECURSIVE Carried(_, _, _)
Carried(cols, k, carry) ==
  IF k \notin Digits THEN cols
  ELSE Carried([cols EXCEPT ![k] = (cols[k] + carry) % Base], k + 1,
               (cols[k] + carry) \div Base)

AddBig(x, y) == Carried([k \in Digits |-> x[k] + y[k]], 1, 0)
Scale(x, digit) == Carried([k \in Digits |-> x[k] * digit], 1, 0)
Shift(x, n) == [k \in Digits |-> IF k > n THEN x[k - n] ELSE 0]

\* x * y for y below 2^45
MulBig(x, y) ==
  AddBig(AddBig(Scale(x, y[1]), Shift(Scale(x, y[2]), 1)), Shift(Scale(x, y[3]), 2))

RECURSIVE BitsOf(_)
BitsOf(digit) == IF digit = 0 THEN 0 ELSE 1 + BitsOf(digit \div 2)

RECURSIVE TopDigit(_, _)
TopDigit(x, k) == IF k = 0 \/ x[k] # 0 THEN k ELSE TopDigit(x, k - 1)

BitLength(x) ==
  LET t == TopDigit(x, Cardinality(Digits))
  IN  IF t = 0 THEN 0 ELSE BitsOf(Base - 1) * (t - 1) + BitsOf(x[t])

RECURSIVE Pow2(_)
Pow2(n) == IF n = 0 THEN 1 ELSE 2 * Pow2(n - 1)

\* the double nearest to the integer x, ties to even: a double holds 53
\* significant bits (x below 2^67, so that the bits dropped are in x[1])
Double(x) ==
  LET shift == BitLength(x) - 53
  IN  IF shift <= 0 THEN x
      ELSE LET unit == Pow2(shift)
               low == x[1] % unit
               odd == (x[1] \div unit) % 2 = 1
               down == [x EXCEPT ![1] = x[1] - low]
           IN  IF low * 2 > unit \/ (low * 2 = unit /\ odd)
               THEN AddBig(down, Big(unit))
               ELSE down

\* x % Math.pow(2, 31) of a non-negative integer double x (exact)
ModM(x) == x[1] + x[2] * Base + (x[3] % 2) * (Base * Base)

A == 1103515245
C == 12345

\* new Random(seed): given is <<>> (no argument) or <<seed>>
Random(given) == IF given = <<>> THEN 1 ELSE given[1]

\* the seed stored by next(): (this.a * this.seed + this.c) % this.m, the
\* product and the sum each rounded to a double
RandomNext(seed) == ModM(Double(AddBig(Double(MulBig(Big(seed), Big(A))), Big(C))))

\* the value returned by next(), this.seed / this.m, as a numerator over
\* 2^31 (the division by a power of two is exact)
Draw(seed) == [numerator |-> seed, shift |-> 31]

\* (1103515245 * seed + 12345) mod 2^31 over the integers
ExactNext(seed) == ModM(AddBig(MulBig(Big(seed), Big(A)), Big(C)))

\* the integer seeds tried
Seeds == {0, 1, 2, 12345, 8161000, 8162000, 123456789, 1073741824, 2147483646, 2147483647}

InitRandom ==
  /\ Construct(<<2, 1>>, <<"identity">>, One, NoOptions, 0)
  /\ NoPairs
  /\ NoObjects
  /\ NoGraph
  /\ sequence = <<>>
  /\ windowed = <<>>
  /\ shadow = <<>>
  /\ \E given \in {<<>>} \cup {<<s>> : s \in Seeds} :
       random = [seed |-> Random(given), given |-> given, draws |-> 0,
                 before |-> Random(given), returned |-> Draw(0)]

\* random.next()
NextCall ==
  /\ random.draws < MaxDraws
  /\ random' = [random EXCEPT !.seed = RandomNext(random.seed),
                              !.draws = random.draws + 1,
                              !.before = random.seed,
                              !.returned = Draw(RandomNext(random.seed))]
  /\ UNCHANGED <<sequence, windowed, shadow, flatVars, pairVars, objectVars, graphVars>>

NextRandom == NextCall

SpecRandom == InitRandom /\ [][NextRandom]_vars

\* 0 <= draw < 1
InUnit(draw) ==
  /\ draw.numerator >= 0
  /\ draw.numerator \div Pow2(draw.shift - 1) < 2

\* C28: next() replaces the seed by (1103515245 * seed + 12345) mod 2^31
\* computed over the integers, the new seed is an integer in [0, 2^31) and
\* the draw returned is seed / 2^31, in [0, 1) (so that draw - 0.5, which a
\* seeded weight scales by 1 / sqrt(inputs), is in [-0.5, 0.5)).
C28_ExactGenerator ==
  random.draws > 0 =>
    /\ random.seed = ExactNext(random.before)
    /\ random.returned = Draw(random.seed)
    /\ InUnit(random.returned)

\* ------------------------------------------------------------------------
\* The options of the Trainer
\* ------------------------------------------------------------------------
\* an option as the caller gave it, the default when it was omitted
AsGiven(option, dflt) == IF option = Undefined THEN dflt ELSE option

\* C29: the trainer uses each option exactly as given and a default (seed 0,
\* step 0.15, momentum 0.5) only for an omitted option; so with momentum 0 a
\* backward call stores newDelta = step * input * grad for every weight, with
\* no contribution of the previous delta, and with step 0 and zero deltas a
\* backward call leaves every weight unchanged.
C29_OptionsAsGiven ==
  /\ options.seed = AsGiven(built.given.seed, DefaultSeed)
  /\ options.step = AsGiven(built.given.step, DefaultStep)
  /\ options.momentum = AsGiven(built.given.momentum, DefaultMomentum)
  /\ (last.op = "backward" /\ built.given.momentum = Zero) =>
       \A k \in DOMAIN deltas :
         \A i \in 0..(deltas[k].inputs - 1) : \A o \in 0..(deltas[k].outputs - 1) :
           MatrixGet(deltas[k], i, o) =
             Mul(Mul(built.given.step, Index(tensors[k].data, i)),
                 Index(gradients[k + 1], o))
  /\ (/\ last.op = "backward"
      /\ built.given.step = Zero
      /\ \A k \in DOMAIN deltas : \A n \in DOMAIN deltas[k].data :
           last.before.deltas[k].data[n] = Zero) =>
       matrices = last.before.matrices

\* ------------------------------------------------------------------------
\* memory.ts: the layout new Memory(descriptors) builds
\* ------------------------------------------------------------------------
\* the largest descriptor.neurons and the largest number of layers tried
MaxNeurons == 3
MaxLayers == 3

\* the descriptor arrays tried
DescriptorsTried ==
  UNION {{Descriptors(topo, kind) : topo \in [1..n -> 0..MaxNeurons]} :
           n \in 1..MaxLayers, kind \in GraphKinds}

\* no memory allocated
NoMemory == [layers |-> <<>>, synapses |-> <<>>, neurons |-> <<>>, values |-> <<>>,
             gradients |-> <<>>, weights |-> <<>>, deltas |-> <<>>]

InitMemory ==
  /\ Construct(<<2, 1>>, <<"identity">>, One, NoOptions, 0)
  /\ NoPairs
  /\ NoObjects
  /\ NoSide
  /\ twin = <<>>
  /\ memory = NoMemory
  /\ \E descriptors \in DescriptorsTried :
       graph = [descriptors |-> descriptors, built |-> FALSE]

\* new Memory(descriptors)
NewMemory ==
  /\ ~graph.built
  /\ memory' = Memory(graph.descriptors)
  /\ graph' = [graph EXCEPT !.built = TRUE]
  /\ UNCHANGED <<twin, flatVars, pairVars, objectVars, sideVars>>

NextMemory == NewMemory

SpecMemory == InitMemory /\ [][NextMemory]_vars

\* the sum over k >= l of (n_k + 1) * n_(k+1)
RECURSIVE SynapseCount(_, _)
SynapseCount(descriptors, l) ==
  IF l >= Length(descriptors) - 1 THEN 0
  ELSE (descriptors[l].neurons + 1) * descriptors[l + 1].neurons
         + SynapseCount(descriptors, l + 1)

\* the array `list` holds exactly the elements of S, each once
HoldsExactly(list, S) ==
  /\ {list[j] : j \in DOMAIN list} = S
  /\ Length(list) = Cardinality(S)

\* C30: in the memory built from descriptors with n_0 .. n_(L-1) neurons,
\* layer k holds n_k + 1 consecutive neuron indices, the first the bias
\* neuron; there is exactly one synapse from every neuron of layer k to every
\* non-bias neuron of layer k + 1 and no other, sum of (n_k + 1) * n_(k+1)
\* in all; synapse s has index s and weight slot s; a neuron's outputs are
\* exactly the synapses leaving it and its inputs exactly those entering it;
\* a bias neuron has no input; every buffer has one slot per neuron or per
\* synapse.
C30_MemoryLayout ==
  LET d == graph.descriptors
      layers == memory.layers
      synapses == memory.synapses
      neurons == memory.neurons
  IN  graph.built =>
      /\ DOMAIN layers = DOMAIN d
      /\ \A k \in DOMAIN layers :
           /\ layers[k].index = k
           /\ Length(layers[k].neurons) = d[k].neurons + 1
           /\ layers[k].neurons[0] = FirstNeuron(d, k)
           /\ \A j \in DOMAIN layers[k].neurons :
                /\ layers[k].neurons[j] = layers[k].neurons[0] + j
                /\ neurons[layers[k].neurons[j]].layer = k
           /\ neurons[layers[k].neurons[0]].inputs = <<>>
           /\ memory.values[layers[k].neurons[0]] = One
      /\ Length(neurons) = FirstNeuron(d, Length(d))
      /\ \A k \in DOMAIN layers : k + 1 \in DOMAIN layers =>
           \A j \in DOMAIN layers[k].neurons : \A q \in 1..d[k + 1].neurons :
             Cardinality({s \in DOMAIN synapses :
                            /\ synapses[s].output = layers[k].neurons[j]
                            /\ synapses[s].input = layers[k + 1].neurons[q]}) = 1
      /\ \A s \in DOMAIN synapses :
           /\ synapses[s].index = s
           /\ synapses[s].weight = s
           /\ \E k \in DOMAIN layers :
                /\ k + 1 \in DOMAIN layers
                /\ \E j \in DOMAIN layers[k].neurons :
                     synapses[s].output = layers[k].neurons[j]
                /\ \E q \in 1..d[k + 1].neurons :
                     synapses[s].input = layers[k + 1].neurons[q]
      /\ Length(synapses) = SynapseCount(d, 0)
      /\ \A n \in DOMAIN neurons :
           /\ neurons[n].index = n
           /\ HoldsExactly(neurons[n].outputs,
                           {s \in DOMAIN synapses : synapses[s].output = n})
           /\ HoldsExactly(neurons[n].inputs,
                           {s \in DOMAIN synapses : synapses[s].input = n})
      /\ DOMAIN memory.values = DOMAIN neurons
      /\ DOMAIN memory.gradients = DOMAIN neurons
      /\ DOMAIN memory.weights = DOMAIN synapses
      /\ DOMAIN memory.deltas = DOMAIN synapses

\* a memory built of three layers of two neurons or more each
C30_Witness ==
  /\ graph.built
  /\ Length(graph.descriptors) = 3
  /\ \A k \in DOMAIN graph.descriptors : graph.descriptors[k].neurons >= 2
  /\ Length(memory.synapses) >= 12
  /\ \E n \in DOMAIN memory.neurons :
       Length(memory.neurons[n].inputs) >= 3 /\ Length(memory.neurons[n].outputs) >= 2

====
